---- MODULE Spec2Model ----
(***************************************************************************)
(* A model of backend/server.py of the liquor stock dashboard: the upload  *)
(* pipeline (format detection, column classification, row filter, global   *)
(* D1 date, per-brand reconstruction, list-format fallback), the overstock *)
(* and demand calculations, and the handlers' use of the liquor_data       *)
(* collection.                                                             *)
(*                                                                         *)
(* Text is a sequence of one-character strings, so that lower(), strip(),  *)
(* `in`, endswith(), sorting and float() are computed.                     *)
(* Python floats are exact rationals [n, d] (d > 0, lowest terms): the     *)
(* rounding error of binary floating point is not modelled.                *)
(***************************************************************************)
EXTENDS Integers, Sequences, FiniteSets, TLC

(***************************************************************************)
(* Text                                                                    *)
(***************************************************************************)
UpperChars == <<"A","B","C","D","E","F","G","H","I","J","K","L","M",
                "N","O","P","Q","R","S","T","U","V","W","X","Y","Z">>

LowerChars == <<"a","b","c","d","e","f","g","h","i","j","k","l","m",
                "n","o","p","q","r","s","t","u","v","w","x","y","z">>

DigitChars == <<"0","1","2","3","4","5","6","7","8","9">>

\* The characters the inputs use, in code-point order (Python compares
\* strings by code point).
CharOrder == <<"\n", " ", ",", "-", ".">> \o DigitChars \o UpperChars
             \o <<"_">> \o LowerChars

Ord(c) == CHOOSE i \in 1..Len(CharOrder) : CharOrder[i] = c

IsSpace(c) == c \in {" ", "\n"}

IsDigit(c) == \E i \in 1..10 : DigitChars[i] = c

DigitVal(c) == (CHOOSE i \in 1..10 : DigitChars[i] = c) - 1

\* str.lower(), one character
LowerChar(c) ==
    IF \E i \in 1..26 : UpperChars[i] = c
    THEN LowerChars[CHOOSE i \in 1..26 : UpperChars[i] = c]
    ELSE c

\* str.lower()
Lower(s) == [i \in 1..Len(s) |-> LowerChar(s[i])]

RECURSIVE LStrip(_)
LStrip(s) == IF s # <<>> /\ IsSpace(Head(s)) THEN LStrip(Tail(s)) ELSE s

RECURSIVE RStrip(_)
RStrip(s) ==
    IF s # <<>> /\ IsSpace(s[Len(s)]) THEN RStrip(SubSeq(s, 1, Len(s) - 1)) ELSE s

\* str.strip()
Strip(s) == RStrip(LStrip(s))

\* `sub in s` for strings
Contains(s, sub) ==
    \E i \in 1..(Len(s) - Len(sub) + 1) : SubSeq(s, i, i + Len(sub) - 1) = sub

\* str.endswith(suffix)
EndsWith(s, suffix) ==
    /\ Len(s) >= Len(suffix)
    /\ SubSeq(s, Len(s) - Len(suffix) + 1, Len(s)) = suffix

\* a < b for Python strings
RECURSIVE StrLess(_, _)
StrLess(a, b) ==
    IF b = <<>> THEN FALSE
    ELSE IF a = <<>> THEN TRUE
    ELSE IF Head(a) # Head(b) THEN Ord(Head(a)) < Ord(Head(b))
    ELSE StrLess(Tail(a), Tail(b))

StrLe(a, b) == a = b \/ StrLess(a, b)

\* str.replace(',', '')
RECURSIVE RemoveCommas(_)
RemoveCommas(s) ==
    IF s = <<>> THEN <<>>
    ELSE IF Head(s) = "," THEN RemoveCommas(Tail(s))
    ELSE <<Head(s)>> \o RemoveCommas(Tail(s))

\* list.sort() / sorted() of strings: a stable insertion sort
RECURSIVE InsertSorted(_, _)
InsertSorted(x, sorted) ==
    IF sorted = <<>> THEN <<x>>
    ELSE IF StrLess(x, Head(sorted)) THEN <<x>> \o sorted
    ELSE <<Head(sorted)>> \o InsertSorted(x, Tail(sorted))

RECURSIVE SortStrings(_)
SortStrings(xs) ==
    IF xs = <<>> THEN <<>>
    ELSE InsertSorted(xs[Len(xs)], SortStrings(SubSeq(xs, 1, Len(xs) - 1)))

(***************************************************************************)
(* Numbers: Python floats as exact rationals                               *)
(***************************************************************************)
Abs(n) == IF n < 0 THEN -n ELSE n

RECURSIVE GCD(_, _)
GCD(a, b) == IF b = 0 THEN a ELSE GCD(b, a % b)

Reduced(n, d, g) ==
    IF d < 0 THEN [n |-> (-n) \div g, d |-> (-d) \div g]
    ELSE [n |-> n \div g, d |-> d \div g]

\* n/d in lowest terms, d > 0
Q(n, d) == Reduced(n, d, GCD(Abs(n), Abs(d)))

QI(n) == [n |-> n, d |-> 1]

QAdd(a, b) == Q(a.n * b.d + b.n * a.d, a.d * b.d)

QSub(a, b) == Q(a.n * b.d - b.n * a.d, a.d * b.d)

QMul(a, b) == Q(a.n * b.n, a.d * b.d)

\* a / b, b # 0
QDiv(a, b) == Q(a.n * b.d, a.d * b.n)

QLt(a, b) == a.n * b.d < b.n * a.d

QLe(a, b) == a.n * b.d <= b.n * a.d

QMax(a, b) == IF QLt(a, b) THEN b ELSE a

QMin(a, b) == IF QLt(b, a) THEN b ELSE a

\* int(x): truncation towards zero
QInt(a) == IF a.n >= 0 THEN a.n \div a.d ELSE -((-a.n) \div a.d)

\* a // b for Python ints, b > 0 (floor division)
FloorDiv(a, b) == a \div b

MaxInt(a, b) == IF a < b THEN b ELSE a

MinInt(a, b) == IF a < b THEN a ELSE b

\* round(x, 2): to the nearest hundredth, ties to the even hundredth
RoundHalfEven(f, r, d) ==
    IF 2 * r > d \/ (2 * r = d /\ f % 2 = 1) THEN Q(f + 1, 100) ELSE Q(f, 100)

QRound2(a) ==
    RoundHalfEven((a.n * 100) \div a.d, (a.n * 100) % a.d, a.d)

(***************************************************************************)
(* String literals of server.py                                            *)
(***************************************************************************)
s_brand == <<"b","r","a","n","d">>

s_name == <<"n","a","m","e">>

s_wholesale == <<"w","h","o","l","e","s","a","l","e">>

s_rate == <<"r","a","t","e">>

s_selling == <<"s","e","l","l","i","n","g">>

s_retail == <<"r","e","t","a","i","l">>

s_total == <<"t","o","t","a","l">>

s_sum == <<"s","u","m">>

s_brand_name == <<"b","r","a","n","d"," ","n","a","m","e">>

s_brand_name_us == <<"b","r","a","n","d","_","n","a","m","e">>

s_product == <<"p","r","o","d","u","c","t">>

s_nan == <<"n","a","n">>

s_none == <<"n","o","n","e">>

\* server.py:145
IndexTerms == {<<"i","n","d","e","x">>, <<"s","l">>, <<"s","r">>, <<"n","o">>, <<"i","d">>}

\* server.py:149
MonthTerms == {<<"j","a","n">>, <<"f","e","b">>, <<"m","a","r">>, <<"a","p","r">>,
               <<"m","a","y">>, <<"j","u","n">>, <<"j","u","l">>, <<"a","u","g">>,
               <<"s","e","p">>, <<"o","c","t">>, <<"n","o","v">>, <<"d","e","c">>}

\* server.py:93
BrandHeaderTerms == {s_brand_name, s_brand_name_us, s_product, s_name}

\* server.py:501
UploadSuffixes == {<<".","x","l","s","x">>, <<".","x","l","s">>, <<".","c","s","v">>}

(***************************************************************************)
(* Cells of a pandas DataFrame: NaN, a number, or a string.                *)
(* Numeric cells hold integers.                                            *)
(***************************************************************************)
NaN == [k |-> "nan", v |-> 0, s |-> <<>>]

Num(n) == [k |-> "num", v |-> n, s |-> <<>>]

Str(t) == [k |-> "str", v |-> 0, s |-> t]

\* pd.notna(x)
NotNa(c) == c.k # "nan"

RECURSIVE NatDigits(_)
NatDigits(n) ==
    IF n < 10 THEN <<DigitChars[n + 1]>>
    ELSE NatDigits(n \div 10) \o <<DigitChars[(n % 10) + 1]>>

\* str(x) of a cell
StrOf(c) ==
    CASE c.k = "str" -> c.s
      [] c.k = "nan" -> s_nan
      [] OTHER -> IF c.v < 0 THEN <<"-">> \o NatDigits(-c.v) ELSE NatDigits(c.v)

RECURSIVE DigitsValue(_, _)
DigitsValue(ds, acc) ==
    IF ds = <<>> THEN acc ELSE DigitsValue(Tail(ds), acc * 10 + DigitVal(Head(ds)))

AllDigits(ds) == \A i \in 1..Len(ds) : IsDigit(ds[i])

Pow10(k) == IF k = 0 THEN 1 ELSE IF k = 1 THEN 10 ELSE IF k = 2 THEN 100 ELSE 1000

NotAFloat == [ok |-> FALSE, val |-> QI(0)]

\* The value of a sign, an integer part ip and a fraction part fp
FloatOfParts(neg, ip, fp) ==
    IF /\ Len(ip) + Len(fp) >= 1
       /\ Len(fp) <= 3
       /\ AllDigits(ip) /\ AllDigits(fp)
    THEN [ok |-> TRUE,
          val |-> Q((IF neg THEN -1 ELSE 1)
                      * (DigitsValue(ip, 0) * Pow10(Len(fp)) + DigitsValue(fp, 0)),
                    Pow10(Len(fp)))]
    ELSE NotAFloat

FloatAtDot(neg, body, dot) ==
    FloatOfParts(neg, SubSeq(body, 1, dot - 1), SubSeq(body, dot + 1, Len(body)))

FloatOfBody(neg, body, dots) ==
    IF Cardinality(dots) > 1 THEN NotAFloat
    ELSE IF dots = {} THEN FloatAtDot(neg, body, Len(body) + 1)
    ELSE FloatAtDot(neg, body, CHOOSE i \in dots : TRUE)

FloatOfSigned(neg, body) ==
    FloatOfBody(neg, body, {i \in 1..Len(body) : body[i] = "."})

FloatOfStripped(u) ==
    IF u = <<>> THEN NotAFloat
    ELSE IF Head(u) \in {"-", "+"} THEN FloatOfSigned(Head(u) = "-", Tail(u))
    ELSE FloatOfSigned(FALSE, u)

\* float(text): ok is FALSE where Python raises ValueError.  Accepted here:
\* optional surrounding whitespace, an optional sign, digits, and an optional
\* fraction of up to three digits.
ParseFloatText(t) == FloatOfStripped(Strip(t))

\* float(x) of a cell that is not NaN
ParseFloat(c) ==
    IF c.k = "num" THEN [ok |-> TRUE, val |-> QI(c.v)] ELSE ParseFloatText(c.s)

\* re.search(r'\d+', text): the first run of digits, <<>> if there is none
FirstDigitRun(t) ==
    LET starts == {i \in 1..Len(t) : IsDigit(t[i])}
    IN  IF starts = {} THEN <<>>
        ELSE LET a == CHOOSE i \in starts : \A j \in starts : i <= j
                 ends == {j \in a..Len(t) : \A m \in a..j : IsDigit(t[m])}
                 b == CHOOSE j \in ends : \A m \in ends : m <= j
             IN  SubSeq(t, a, b)

(***************************************************************************)
(* parse_tabular_format                                                    *)
(*                                                                         *)
(* A DataFrame is [cols, rows]: cols the header cells, rows a sequence of  *)
(* [idx, cells] with idx the row's 0-based DataFrame index and cells one   *)
(* cell per column.  Column labels are distinct.                           *)
(***************************************************************************)
NoCol == <<>>

\* What a parser returns or raises: data on success, otherwise the exception
\* class and, for an HTTPException, its status code and detail.  When the
\* detail ends with the text of another exception, error is that text.
Parsed(data) == [raised |-> "none", status |-> 200, detail |-> "", error |-> "", data |-> data]

HTTPException(status, detail) ==
    [raised |-> "HTTPException", status |-> status, detail |-> detail, error |-> "", data |-> <<>>]

OtherException(what) ==
    [raised |-> "Exception", status |-> 0, detail |-> what, error |-> "", data |-> <<>>]

\* df.columns = df.columns.str.strip()
StripColumns(cols) == [i \in 1..Len(cols) |-> Strip(cols[i].s)]

\* A variant that tests the date rule before the index rule
ClassifyLower_dates_first(acc, col, col_lower) ==
        IF Contains(col_lower, s_brand) /\ Contains(col_lower, s_name)
        THEN [acc EXCEPT !.brand_col = <<col>>]
        ELSE IF Contains(col_lower, s_wholesale) /\ Contains(col_lower, s_rate)
        THEN [acc EXCEPT !.wholesale_rate_col = <<col>>]
        ELSE IF /\ Contains(col_lower, s_selling) \/ Contains(col_lower, s_retail)
                /\ Contains(col_lower, s_rate)
        THEN [acc EXCEPT !.selling_rate_col = <<col>>]
        ELSE IF /\ Contains(col_lower, s_rate)
                /\ acc.wholesale_rate_col = NoCol
                /\ acc.selling_rate_col = NoCol
        THEN [acc EXCEPT !.selling_rate_col = <<col>>]
        ELSE IF \E date_part \in MonthTerms : Contains(col_lower, date_part)
        THEN [acc EXCEPT !.date_columns = Append(@, col)]
        ELSE IF /\ \E term \in IndexTerms : Contains(col_lower, term)
                /\ Len(col) <= 10
        THEN [acc EXCEPT !.index_col = <<col>>]
        ELSE acc

\* One pass of the loop that finds the key columns (an elif chain).
ClassifyLower(acc, col, col_lower) ==
        IF Contains(col_lower, s_brand) /\ Contains(col_lower, s_name)
        THEN [acc EXCEPT !.brand_col = <<col>>]
        ELSE IF Contains(col_lower, s_wholesale) /\ Contains(col_lower, s_rate)
        THEN [acc EXCEPT !.wholesale_rate_col = <<col>>]
        ELSE IF /\ Contains(col_lower, s_selling) \/ Contains(col_lower, s_retail)
                /\ Contains(col_lower, s_rate)
        THEN [acc EXCEPT !.selling_rate_col = <<col>>]
        ELSE IF /\ Contains(col_lower, s_rate)
                /\ acc.wholesale_rate_col = NoCol
                /\ acc.selling_rate_col = NoCol
        THEN [acc EXCEPT !.selling_rate_col = <<col>>]
        ELSE IF /\ \E term \in IndexTerms : Contains(col_lower, term)
                /\ Len(col) <= 10
        THEN [acc EXCEPT !.index_col = <<col>>]
        ELSE IF \E date_part \in MonthTerms : Contains(col_lower, date_part)
        THEN [acc EXCEPT !.date_columns = Append(@, col)]
        ELSE acc

ClassifyColumn(acc, col) == ClassifyLower(acc, col, Strip(Lower(col)))

RECURSIVE ClassifyFrom(_, _)
ClassifyFrom(cols, acc) ==
    IF cols = <<>> THEN acc ELSE ClassifyFrom(Tail(cols), ClassifyColumn(acc, Head(cols)))

\* The key columns of a header row, date columns sorted as strings.
ClassifyColumns(cols) ==
    LET found == ClassifyFrom(cols, [brand_col |-> NoCol, wholesale_rate_col |-> NoCol,
                                     selling_rate_col |-> NoCol, index_col |-> NoCol,
                                     date_columns |-> <<>>])
    IN  [found EXCEPT !.date_columns = SortStrings(@)]

ColPos(cols, col) == CHOOSE i \in 1..Len(cols) : cols[i] = col

\* row[col]
CellAt(cols, row, col) == row.cells[ColPos(cols, col)]

\* str.contains('total|sum|^brand name$|^name$|^brand$', case=False): `$` also
\* matches before a final newline.
AnchoredMatch(t, lit) == t = lit \/ t = lit \o <<"\n">>

SummaryPattern(t) ==
    LET low == Lower(t)
    IN  \/ Contains(low, s_total)
        \/ Contains(low, s_sum)
        \/ AnchoredMatch(low, s_brand_name)
        \/ AnchoredMatch(low, s_name)
        \/ AnchoredMatch(low, s_brand)

\* df[df[brand_col].notna()] and the pattern filter: the rows kept, in order,
\* each with its original index.
RECURSIVE FilterRows(_, _, _)
FilterRows(cols, rows, brand_col) ==
    IF rows = <<>> THEN <<>>
    ELSE LET cell == CellAt(cols, Head(rows), brand_col)
             keep == NotNa(cell) /\ ~SummaryPattern(StrOf(cell))
         IN  (IF keep THEN <<Head(rows)>> ELSE <<>>)
             \o FilterRows(cols, Tail(rows), brand_col)

\* brand_name = str(row[brand_col]).strip()
BrandNameOf(cols, row, brand_col) == Strip(StrOf(CellAt(cols, row, brand_col)))

\* `not brand_name or brand_name.lower() in ['nan', 'none', '']`
SkippedName(brand_name) ==
    brand_name = <<>> \/ Lower(brand_name) \in {s_nan, s_none, <<>>}

(***************************************************************************)
(* STEP 1 of parse_tabular_format: the global D1 date.  A dict is a        *)
(* sequence of [key, val] in insertion order.                              *)
(***************************************************************************)
DictHas(d, key) == \E i \in 1..Len(d) : d[i].key = key

DictGet(d, key) == d[CHOOSE i \in 1..Len(d) : d[i].key = key].val

\* d[key] = val: an existing key keeps its place and takes the new value
DictPut(d, key, val) ==
    IF DictHas(d, key)
    THEN [i \in 1..Len(d) |-> IF d[i].key = key THEN [key |-> key, val |-> val] ELSE d[i]]
    ELSE Append(d, [key |-> key, val |-> val])

\* try: float(...) except: 0
ValueOr0(p) == IF p.ok THEN p.val ELSE QI(0)

\* The reading STEP 1 takes from a cell that is not NaN: float(cell), and 0
\* where float() raises.
D1Reading(cell) == ValueOr0(ParseFloat(cell))

\* brand_stock_data of one row: the cells that are not NaN, by date column
RECURSIVE BrandStockData(_, _, _)
BrandStockData(cols, row, date_columns) ==
    IF date_columns = <<>> THEN <<>>
    ELSE LET cell == CellAt(cols, row, Head(date_columns))
         IN  (IF NotNa(cell)
              THEN <<[key |-> Head(date_columns), val |-> D1Reading(cell)]>>
              ELSE <<>>)
             \o BrandStockData(cols, row, Tail(date_columns))

\* all_brand_stock_data: keyed by brand name, so of several rows with one
\* brand name the last one's readings stay.
RECURSIVE AllBrandStockData(_, _, _, _, _)
AllBrandStockData(cols, rows, brand_col, date_columns, acc) ==
    IF rows = <<>> THEN acc
    ELSE LET brand_name == BrandNameOf(cols, Head(rows), brand_col)
             brand_stock_data == BrandStockData(cols, Head(rows), date_columns)
             next == IF SkippedName(brand_name) \/ brand_stock_data = <<>>
                     THEN acc
                     ELSE DictPut(acc, brand_name, brand_stock_data)
         IN  AllBrandStockData(cols, Tail(rows), brand_col, date_columns, next)

\* Whether some brand's reading at sorted_dates[i] exceeds its reading at
\* sorted_dates[i-1], both present.
IncreaseAt(all_brand_stock_data, sorted_dates, i) ==
    \E b \in 1..Len(all_brand_stock_data) :
        LET stock_data == all_brand_stock_data[b].val
        IN  /\ DictHas(stock_data, sorted_dates[i - 1])
            /\ DictHas(stock_data, sorted_dates[i])
            /\ QLt(DictGet(stock_data, sorted_dates[i - 1]),
                   DictGet(stock_data, sorted_dates[i]))

\* A variant that falls back to the last date
FindGlobalD1_last(all_brand_stock_data, date_columns) ==
    LET sorted_dates == SortStrings(date_columns)
        hits == {i \in 2..Len(sorted_dates) :
                    IncreaseAt(all_brand_stock_data, sorted_dates, i)}
    IN  IF hits = {} THEN sorted_dates[Len(sorted_dates)]
        ELSE sorted_dates[CHOOSE i \in hits : \A j \in hits : i <= j]

\* global_D1_date: the first date with an increase, else the first date
FindGlobalD1(all_brand_stock_data, date_columns) ==
    LET sorted_dates == SortStrings(date_columns)
        hits == {i \in 2..Len(sorted_dates) :
                    IncreaseAt(all_brand_stock_data, sorted_dates, i)}
    IN  IF hits = {} THEN sorted_dates[1]
        ELSE sorted_dates[CHOOSE i \in hits : \A j \in hits : i <= j]

(***************************************************************************)
(* STEP 2 of parse_tabular_format: one brand_data per row                  *)
(***************************************************************************)
\* A variant that numbers every row by its position
IndexFrom_position(numeric_match, p, position) == position

IndexFrom(numeric_match, p, position) ==
    IF numeric_match # <<>> THEN DigitsValue(numeric_match, 0)
    ELSE IF p.ok THEN QInt(p.val)
    ELSE position

\* index_num of a row (server.py:235-248)
IndexNumber(cols, row, index_col) ==
    IF index_col # NoCol /\ NotNa(CellAt(cols, row, index_col[1]))
    THEN IndexFrom(FirstDigitRun(Strip(StrOf(CellAt(cols, row, index_col[1])))),
                   ParseFloat(CellAt(cols, row, index_col[1])),
                   row.idx + 1)
    ELSE row.idx + 1

\* A rate cell (server.py:254-264): 0.0 without a column, for NaN and for text
\* float() rejects.
RateOf(cols, row, rate_col) ==
    IF rate_col # NoCol /\ NotNa(CellAt(cols, row, rate_col[1]))
    THEN ValueOr0(ParseFloat(CellAt(cols, row, rate_col[1])))
    ELSE QI(0)

\* A variant deriving with 0.8 in place of 0.9
DeriveRates_80(wholesale_rate, selling_rate) ==
    IF wholesale_rate = QI(0) /\ QLt(QI(0), selling_rate)
    THEN [wholesale_rate |-> QMul(selling_rate, Q(8, 10)), selling_rate |-> selling_rate]
    ELSE IF selling_rate = QI(0) /\ QLt(QI(0), wholesale_rate)
    THEN [wholesale_rate |-> wholesale_rate, selling_rate |-> QDiv(wholesale_rate, Q(8, 10))]
    ELSE [wholesale_rate |-> wholesale_rate, selling_rate |-> selling_rate]

\* The missing rate derived from the other (server.py:267-270)
DeriveRates(wholesale_rate, selling_rate) ==
    IF wholesale_rate = QI(0) /\ QLt(QI(0), selling_rate)
    THEN [wholesale_rate |-> QMul(selling_rate, Q(9, 10)), selling_rate |-> selling_rate]
    ELSE IF selling_rate = QI(0) /\ QLt(QI(0), wholesale_rate)
    THEN [wholesale_rate |-> wholesale_rate, selling_rate |-> QDiv(wholesale_rate, Q(9, 10))]
    ELSE [wholesale_rate |-> wholesale_rate, selling_rate |-> selling_rate]

\* Whether STEP 2 takes a date cell as present (server.py:283)
StockPresent(cell) == NotNa(cell) /\ Strip(StrOf(cell)) # <<>>

\* stock_qty of a present date cell (server.py:285-293)
FirstOk(p, q) == IF p.ok THEN p.val ELSE IF q.ok THEN q.val ELSE QI(0)

StockQty(cell) == FirstOk(ParseFloat(cell), ParseFloatText(RemoveCommas(StrOf(cell))))

\* daily_stock_data: one entry per date column, 0 for a cell not present
DailyStockData(cols, row, date_columns) ==
    [i \in 1..Len(date_columns) |->
        LET cell == CellAt(cols, row, date_columns[i])
        IN  [key |-> date_columns[i],
             val |-> IF StockPresent(cell) THEN StockQty(cell) ELSE QI(0)]]

ValidEntry(date_col, present, stock_qty) ==
    IF present /\ QLe(QI(0), stock_qty) THEN <<[key |-> date_col, val |-> stock_qty]>>
    ELSE <<>>

\* valid_stock_values: the present cells with stock_qty >= 0, in column order
RECURSIVE ValidStockValues(_, _, _)
ValidStockValues(cols, row, date_columns) ==
    IF date_columns = <<>> THEN <<>>
    ELSE ValidEntry(Head(date_columns),
                    StockPresent(CellAt(cols, row, Head(date_columns))),
                    StockQty(CellAt(cols, row, Head(date_columns))))
         \o ValidStockValues(cols, row, Tail(date_columns))

\* sorted(valid_stock_values, key=lambda x: x[0])
RECURSIVE InsertByKey(_, _)
InsertByKey(x, sorted) ==
    IF sorted = <<>> THEN <<x>>
    ELSE IF StrLess(x.key, Head(sorted).key) THEN <<x>> \o sorted
    ELSE <<Head(sorted)>> \o InsertByKey(x, Tail(sorted))

RECURSIVE SortByKey(_)
SortByKey(xs) ==
    IF xs = <<>> THEN <<>>
    ELSE InsertByKey(xs[Len(xs)], SortByKey(SubSeq(xs, 1, Len(xs) - 1)))

\* The loop of server.py:326-331: the last valid reading at or before D1
RECURSIVE ClosestPrevious(_, _, _)
ClosestPrevious(sorted_stock_values, global_D1_date, D1_stock) ==
    IF sorted_stock_values = <<>> THEN D1_stock
    ELSE IF StrLe(Head(sorted_stock_values).key, global_D1_date)
    THEN ClosestPrevious(Tail(sorted_stock_values), global_D1_date,
                         Head(sorted_stock_values).val)
    ELSE D1_stock

\* D1_stock of a row (server.py:323-331)
D1Stock(daily_stock_data, sorted_stock_values, global_D1_date) ==
    LET at == IF DictHas(daily_stock_data, global_D1_date)
              THEN DictGet(daily_stock_data, global_D1_date) ELSE QI(0)
    IN  IF at = QI(0)
        THEN ClosestPrevious(sorted_stock_values, global_D1_date, at)
        ELSE at

\* The metrics and the dict of a row (server.py:338-387), given its D1 stock,
\* its last valid reading DL and the number of its valid readings
BrandRecord(brand_name, index_num, rates, daily_stock_data, global_D1_date, D1_stock, DL, n_valid) ==
    LET selling_rate == rates.selling_rate
        DL_stock == DL.val
        total_sales_qty == QMax(QI(0), QSub(D1_stock, DL_stock))
        days_between == MaxInt(1, n_valid - 1)
        avg_daily_sales_qty ==
            IF days_between > 0 THEN QDiv(total_sales_qty, QI(days_between)) ELSE QI(0)
        monthly_sales_qty == QMul(avg_daily_sales_qty, QI(24))
        monthly_sales_value == QMul(monthly_sales_qty, selling_rate)
        current_stock_value == QMul(DL_stock, selling_rate)
        stock_ratio ==
            IF QLt(QI(0), monthly_sales_value)
            THEN QDiv(current_stock_value, QMax(QI(1), monthly_sales_value))
            ELSE QI(0)
        stock_available_days ==
            IF QLt(QI(0), avg_daily_sales_qty)
            THEN QDiv(DL_stock, QMax(Q(1, 10), avg_daily_sales_qty))
            ELSE QI(999)
    IN  [brand_name |-> brand_name,
         index_number |-> index_num,
         wholesale_rate |-> rates.wholesale_rate,
         selling_rate |-> selling_rate,
         rate |-> selling_rate,
         D1_date |-> global_D1_date,
         D1_stock |-> D1_stock,
         DL_date |-> DL.key,
         DL_stock |-> DL_stock,
         current_stock_qty |-> QInt(QMax(QI(0), DL_stock)),
         total_sales_qty |-> total_sales_qty,
         avg_daily_sales_qty |-> avg_daily_sales_qty,
         monthly_sales_qty |-> monthly_sales_qty,
         monthly_sale_value |-> monthly_sales_value,
         monthly_sale_qty |-> QInt(QMax(QI(0), monthly_sales_qty)),
         stock_value_today |-> current_stock_value,
         stock_ratio |-> stock_ratio,
         stock_available_days |-> QMin(QI(999), QMax(QI(0), stock_available_days)),
         avg_daily_sale |-> QDiv(monthly_sales_value, QI(30)),
         stock_value_before |-> QMul(D1_stock, selling_rate),
         daily_sales |-> daily_stock_data,
         days_analyzed |-> MaxInt(1, days_between)]

\* brand_data of a row with valid stock values (server.py:319-387)
BrandData(brand_name, index_num, rates, daily_stock_data, sorted_stock_values, global_D1_date) ==
    BrandRecord(brand_name, index_num, rates, daily_stock_data, global_D1_date,
                D1Stock(daily_stock_data, sorted_stock_values, global_D1_date),
                sorted_stock_values[Len(sorted_stock_values)],
                Len(sorted_stock_values))

\* The rest of a pass of the STEP 2 loop, the name and the valid readings known
ParseNamedRow(cols, row, keys, global_D1_date, brand_name, valid_stock_values) ==
    IF SkippedName(brand_name) \/ valid_stock_values = <<>> THEN <<>>
    ELSE <<BrandData(brand_name,
                     IndexNumber(cols, row, keys.index_col),
                     DeriveRates(RateOf(cols, row, keys.wholesale_rate_col),
                                 RateOf(cols, row, keys.selling_rate_col)),
                     DailyStockData(cols, row, keys.date_columns),
                     SortByKey(valid_stock_values),
                     global_D1_date)>>

\* One pass of the STEP 2 loop: <<brand_data>>, or <<>> for a row it skips
ParseRow(cols, row, keys, global_D1_date) ==
    ParseNamedRow(cols, row, keys, global_D1_date,
                  BrandNameOf(cols, row, keys.brand_col[1]),
                  ValidStockValues(cols, row, keys.date_columns))

RECURSIVE ParseRows(_, _, _, _)
ParseRows(cols, rows, keys, global_D1_date) ==
    IF rows = <<>> THEN <<>>
    ELSE ParseRow(cols, Head(rows), keys, global_D1_date)
         \o ParseRows(cols, Tail(rows), keys, global_D1_date)

\* global_D1_date of the filtered rows
GlobalD1Date(cols, rows, keys) ==
    FindGlobalD1(AllBrandStockData(cols, rows, keys.brand_col[1], keys.date_columns, <<>>),
                 keys.date_columns)

AllStrings(cells) == \A i \in 1..Len(cells) : cells[i].k = "str"

\* server.py:396-401
TabularResult(liquor_data) ==
    IF liquor_data = <<>>
    THEN HTTPException(400, "No valid liquor data could be extracted from the file")
    ELSE Parsed(liquor_data)

\* server.py:171-401, the rows filtered
TabularFiltered(cols, keys, rows) ==
    IF rows = <<>>
    THEN HTTPException(400, "No valid brand data found after filtering")
    ELSE TabularResult(ParseRows(cols, rows, keys, GlobalD1Date(cols, rows, keys)))

\* server.py:159-401, the key columns found
TabularClassified(df, cols, keys) ==
    IF keys.brand_col = NoCol
    THEN HTTPException(400, "Could not find 'Brand Name' column in the file")
    ELSE IF keys.date_columns = <<>>
    THEN HTTPException(400, "Could not find date columns for daily stock data")
    ELSE TabularFiltered(cols, keys, FilterRows(cols, df.rows, keys.brand_col[1]))

\* server.py:128-401, the column names stripped
TabularStripped(df, cols) == TabularClassified(df, cols, ClassifyColumns(cols))

parse_tabular_format(df) ==
    IF df.rows = <<>> \/ df.cols = <<>>
    THEN HTTPException(400, "The uploaded file is empty or contains no data")
    ELSE IF ~AllStrings(df.cols)
    THEN OtherException("AttributeError")
    ELSE TabularStripped(df, StripColumns(df.cols))

(***************************************************************************)
(* parse_list_format: df is read with header=None, so its first row is the *)
(* sheet's first row.                                                      *)
(***************************************************************************)
\* all_data: str(x).strip() of every cell that is not NaN or blank, row by row
RECURSIVE FlattenCells(_)
FlattenCells(cells) ==
    IF cells = <<>> THEN <<>>
    ELSE (IF NotNa(Head(cells)) /\ Strip(StrOf(Head(cells))) # <<>>
          THEN <<Strip(StrOf(Head(cells)))>> ELSE <<>>)
         \o FlattenCells(Tail(cells))

RECURSIVE AllData(_)
AllData(rows) ==
    IF rows = <<>> THEN <<>> ELSE FlattenCells(Head(rows)) \o AllData(Tail(rows))

\* item.replace('.', '').isdigit()
RECURSIVE RemoveDots(_)
RemoveDots(t) ==
    IF t = <<>> THEN <<>>
    ELSE IF Head(t) = "." THEN RemoveDots(Tail(t))
    ELSE <<Head(t)>> \o RemoveDots(Tail(t))

IsDigitText(t) == t # <<>> /\ AllDigits(t)

RECURSIVE NumericalData(_)
NumericalData(all_data) ==
    IF all_data = <<>> THEN <<>>
    ELSE (IF ParseFloatText(Head(all_data)).ok THEN <<Head(all_data)>> ELSE <<>>)
         \o NumericalData(Tail(all_data))

RECURSIVE BrandNames(_)
BrandNames(all_data) ==
    IF all_data = <<>> THEN <<>>
    ELSE (IF /\ ~ParseFloatText(Head(all_data)).ok
             /\ Head(all_data) # <<>>
             /\ ~IsDigitText(RemoveDots(Head(all_data)))
          THEN <<Head(all_data)>> ELSE <<>>)
         \o BrandNames(Tail(all_data))

\* The dict of a brand of the list (server.py:442-457)
ListRecord(brand_name, product_id, rate, quantity) ==
    LET monthly_sale_qty == MaxInt(1, FloorDiv(quantity, 4))
        estimated_monthly_sales == QMul(QI(monthly_sale_qty), rate)
        stock_value_today == QMul(rate, QI(quantity))
    IN  [brand_name |-> brand_name,
         product_id |-> product_id,
         rate |-> rate,
         current_stock_qty |-> quantity,
         stock_value_today |-> stock_value_today,
         monthly_sale_value |-> estimated_monthly_sales,
         stock_available_days |->
             IF quantity > 0
             THEN QI(MaxInt(1, FloorDiv(quantity, MaxInt(1, FloorDiv(quantity, 30)))))
             ELSE QI(0),
         stock_ratio |-> QDiv(stock_value_today, QMax(QI(1), estimated_monthly_sales)),
         daily_sales |-> <<>>,
         monthly_sale_qty |-> monthly_sale_qty,
         avg_daily_sale |-> QDiv(estimated_monthly_sales, QI(30)),
         stock_value_before |-> QMul(stock_value_today, Q(11, 10))]

\* brand_data of the i-th brand name, i counted from 0 (server.py:438-457)
ListBrandData(brand_names, numerical_data, i) ==
    ListRecord(brand_names[i + 1],
               numerical_data[i * 3 + 1],
               IF i * 3 + 1 < Len(numerical_data)
               THEN ParseFloatText(numerical_data[i * 3 + 2]).val ELSE QI(100),
               IF i * 3 + 2 < Len(numerical_data)
               THEN QInt(ParseFloatText(numerical_data[i * 3 + 3]).val) ELSE 0)

RECURSIVE ListRows(_, _, _)
ListRows(brand_names, numerical_data, i) ==
    IF i >= Len(brand_names) THEN <<>>
    ELSE (IF i * 3 < Len(numerical_data)
          THEN <<ListBrandData(brand_names, numerical_data, i)>> ELSE <<>>)
         \o ListRows(brand_names, numerical_data, i + 1)

\* The least number of numeric cells per brand name that parse_list_format
\* asks for (server.py:426)
MinNumbersPerBrand == 2

\* server.py:423-465
ListParsed(brand_names, numerical_data) ==
    IF brand_names = <<>>
    THEN HTTPException(400, "No brand names found in the file")
    ELSE IF Len(numerical_data) < Len(brand_names) * MinNumbersPerBrand
    THEN HTTPException(400, "Insufficient numerical data")
    ELSE Parsed(ListRows(brand_names, numerical_data, 0))

\* server.py:409-465
ListFlattened(all_data) == ListParsed(BrandNames(all_data), NumericalData(all_data))

parse_list_format(df) ==
    IF df.rows = <<>>
    THEN HTTPException(400, "The uploaded file is empty or contains no data")
    ELSE ListFlattened(AllData(df.rows))

(***************************************************************************)
(* parse_excel_data.  File content is [kind, cols, rows]: kind "excel" is  *)
(* a workbook pd.read_excel reads, "csv" delimited text only pd.read_csv   *)
(* reads, "junk" bytes neither reads; cols is the sheet's first row and    *)
(* rows the rows under it.                                                 *)
(***************************************************************************)
\* A DataFrame read with the first row as header
WithHeader(content) ==
    [cols |-> content.cols,
     rows |-> [i \in 1..Len(content.rows) |-> [idx |-> i - 1, cells |-> content.rows[i]]]]

\* A DataFrame read with header=None
Headerless(content) ==
    [cols |-> <<>>, rows |-> <<content.cols>> \o content.rows]

\* any(col.lower().strip() in [...] for col in df.columns): "raise" when a
\* header that is not a string is reached before a match
RECURSIVE AnyBrandHeader(_)
AnyBrandHeader(cols) ==
    IF cols = <<>> THEN "no"
    ELSE IF Head(cols).k # "str" THEN "raise"
    ELSE IF Strip(Lower(Head(cols).s)) \in BrandHeaderTerms THEN "yes"
    ELSE AnyBrandHeader(Tail(cols))

\* "tabular", "list", or "raise" (server.py:93)
DetectFormat(cols) ==
    IF Len(cols) >= 3
    THEN LET any == AnyBrandHeader(cols)
         IN  IF any = "yes" THEN "tabular" ELSE IF any = "no" THEN "list" ELSE "raise"
    ELSE "list"

\* The body of one try block: detect, then parse along the path detected
ParseDetected(content) ==
    LET format == DetectFormat(content.cols)
    IN  IF format = "raise" THEN OtherException("AttributeError")
        ELSE IF format = "tabular" THEN parse_tabular_format(WithHeader(content))
        ELSE parse_list_format(Headerless(content))

\* The HTTPException of lines 110-113: the fixed sentence, followed by
\* str(csv_error), the text of the exception the CSV attempt ended with
UnableToParse(csv_error) ==
    [HTTPException(400, "Unable to parse file. Please ensure it's a valid Excel or CSV file. Error: ")
        EXCEPT !.error = csv_error.detail]

\* Any exception of the Excel attempt, an HTTPException of the parsers
\* included, leads to the CSV attempt, and any exception of that one is
\* raised again as "Unable to parse file".
FirstThatParses(first, second) ==
    IF first.raised = "none" THEN first
    ELSE IF second.raised = "none" THEN second
    ELSE UnableToParse(second)

parse_excel_data(content) ==
    FirstThatParses(IF content.kind = "excel" THEN ParseDetected(content)
                    ELSE OtherException("read_excel"),
                    IF content.kind = "csv" THEN ParseDetected(content)
                    ELSE OtherException("read_csv"))

\* Which parser produced the data of a content parse_excel_data accepts
RouteOf(content) ==
    IF content.kind \in {"excel", "csv"} /\ ParseDetected(content).raised = "none"
    THEN DetectFormat(content.cols) ELSE "none"

(***************************************************************************)
(* The LiquorData built from a parsed item, as a dict: the document that   *)
(* is stored.  The id and the upload_timestamp, fresh for every document,  *)
(* are left out.                                                           *)
(***************************************************************************)
s_NA == <<"N","/","A">>

Has(item, f) == f \in DOMAIN item

\* daily_sales: Dict[str, int]
IntValues(d) == [i \in 1..Len(d) |-> [key |-> d[i].key, val |-> QInt(d[i].val)]]

LiquorData(item) ==
    [brand_name |-> item.brand_name,
     rate |-> item.rate,
     daily_sales |-> IntValues(item.daily_sales),
     monthly_sale_qty |-> item.monthly_sale_qty,
     monthly_sale_value |-> item.monthly_sale_value,
     avg_daily_sale |-> item.avg_daily_sale,
     stock_available_days |-> item.stock_available_days,
     stock_value_before |-> item.stock_value_before,
     stock_value_today |-> item.stock_value_today,
     stock_ratio |-> item.stock_ratio,
     index_number |-> IF Has(item, "index_number") THEN item.index_number ELSE 0,
     wholesale_rate |-> IF Has(item, "wholesale_rate") THEN item.wholesale_rate ELSE QI(0),
     selling_rate |-> IF Has(item, "selling_rate") THEN item.selling_rate ELSE QI(0),
     D1_date |-> IF Has(item, "D1_date") THEN item.D1_date ELSE s_NA,
     D1_stock |-> IF Has(item, "D1_stock") THEN item.D1_stock ELSE QI(0),
     DL_date |-> IF Has(item, "DL_date") THEN item.DL_date ELSE s_NA,
     DL_stock |-> IF Has(item, "DL_stock") THEN item.DL_stock ELSE QI(0),
     total_sales_qty |-> IF Has(item, "total_sales_qty") THEN item.total_sales_qty ELSE QI(0),
     avg_daily_sales_qty |->
         IF Has(item, "avg_daily_sales_qty") THEN item.avg_daily_sales_qty ELSE QI(0),
     days_analyzed |-> IF Has(item, "days_analyzed") THEN item.days_analyzed ELSE 0,
     current_stock_qty |-> IF Has(item, "current_stock_qty") THEN item.current_stock_qty ELSE 0]

\* liquor_objects of upload_liquor_data (server.py:527-530)
LiquorObjects(parsed_data) == [i \in 1..Len(parsed_data) |-> LiquorData(parsed_data[i])]

(***************************************************************************)
(* calculate_overstocking                                                  *)
(***************************************************************************)
\* A variant flagging the items under the threshold
IsOverstocked_below(item, multiplier) ==
    /\ QLt(item.stock_value_today, QMul(item.monthly_sale_value, multiplier))
    /\ QLt(QI(0), item.monthly_sale_value)

\* Whether an item is overstocked for a multiplier (server.py:472-478)
IsOverstocked(item, multiplier) ==
    LET monthly_avg_sale == item.monthly_sale_value
        threshold == QMul(monthly_avg_sale, multiplier)
    IN  QLt(threshold, item.stock_value_today) /\ QLt(QI(0), monthly_avg_sale)

\* A variant whose threshold leaves the multiplier out
OverstockEntry_unscaled(item, multiplier) ==
    [brand_name |-> item.brand_name,
     current_stock_value |-> item.stock_value_today,
     monthly_avg_sale |-> item.monthly_sale_value,
     threshold |-> item.monthly_sale_value,
     overstock_value |-> QSub(item.stock_value_today, item.monthly_sale_value),
     stock_ratio |-> item.stock_ratio]

\* The entry of an overstocked item (server.py:476-486)
OverstockEntry(item, multiplier) ==
    LET threshold == QMul(item.monthly_sale_value, multiplier)
    IN  [brand_name |-> item.brand_name,
         current_stock_value |-> item.stock_value_today,
         monthly_avg_sale |-> item.monthly_sale_value,
         threshold |-> threshold,
         overstock_value |-> QSub(item.stock_value_today, threshold),
         stock_ratio |-> item.stock_ratio]

RECURSIVE OverstockedItems(_, _)
OverstockedItems(data, multiplier) ==
    IF data = <<>> THEN <<>>
    ELSE (IF IsOverstocked(Head(data), multiplier)
          THEN <<OverstockEntry(Head(data), multiplier)>> ELSE <<>>)
         \o OverstockedItems(Tail(data), multiplier)

\* sorted(..., key=overstock_value, reverse=True): stable, equal keys keep
\* their order
RECURSIVE InsertByOverstock(_, _)
InsertByOverstock(x, sorted) ==
    IF sorted = <<>> THEN <<x>>
    ELSE IF QLt(Head(sorted).overstock_value, x.overstock_value) THEN <<x>> \o sorted
    ELSE <<Head(sorted)>> \o InsertByOverstock(x, Tail(sorted))

RECURSIVE SortByOverstock(_)
SortByOverstock(xs) ==
    IF xs = <<>> THEN <<>>
    ELSE InsertByOverstock(xs[Len(xs)], SortByOverstock(SubSeq(xs, 1, Len(xs) - 1)))

calculate_overstocking(data, multiplier) ==
    SortByOverstock(OverstockedItems(data, multiplier))

(***************************************************************************)
(* get_demand_recommendations, over the documents find() returned          *)
(***************************************************************************)
\* Target stock in days (server.py:736)
target_days == 30

Urgency(stock_days) ==
    IF QLt(stock_days, QI(10)) THEN "HIGH"
    ELSE IF QLt(stock_days, QI(20)) THEN "MEDIUM"
    ELSE IF QLt(stock_days, QI(30)) THEN "LOW"
    ELSE "NONE"

\* A variant that orders the whole target, whatever is in stock
RecommendedQty_target(record) ==
    MaxInt(0, QInt(QMul(record.avg_daily_sales_qty, QI(target_days))))

\* recommended_qty before the cap (server.py:737-740)
RecommendedQty(record) ==
    LET target_qty == QInt(QMul(record.avg_daily_sales_qty, QI(target_days)))
    IN  MaxInt(0, target_qty - record.current_stock_qty)

\* Whether a document gets a recommendation (server.py:734, 753)
Recommended(record) ==
    /\ QLt(QI(0), record.avg_daily_sales_qty)
    /\ \/ Urgency(record.stock_available_days) # "NONE"
       \/ RecommendedQty(record) > 5

\* A variant without the cap at twice the current stock
Recommendation_uncapped(record) ==
    [brand_name |-> record.brand_name,
     selling_rate |-> record.selling_rate,
     wholesale_rate |-> QRound2(record.wholesale_rate),
     current_stock_qty |-> record.current_stock_qty,
     recommended_qty |-> RecommendedQty(record),
     urgency_level |-> Urgency(record.stock_available_days)]

Recommendation(record) ==
    [brand_name |-> record.brand_name,
     selling_rate |-> record.selling_rate,
     wholesale_rate |-> QRound2(record.wholesale_rate),
     current_stock_qty |-> record.current_stock_qty,
     recommended_qty |-> MinInt(RecommendedQty(record), record.current_stock_qty * 2),
     urgency_level |-> Urgency(record.stock_available_days)]

RECURSIVE Recommendations(_)
Recommendations(records) ==
    IF records = <<>> THEN <<>>
    ELSE (IF Recommended(Head(records)) THEN <<Recommendation(Head(records))>> ELSE <<>>)
         \o Recommendations(Tail(records))

UrgencyOrder(u) ==
    CASE u = "HIGH" -> 1 [] u = "MEDIUM" -> 2 [] u = "LOW" -> 3 [] OTHER -> 4

\* The sort key (urgency_order, -recommended_qty), compared as tuples
RecBefore(a, b) ==
    \/ UrgencyOrder(a.urgency_level) < UrgencyOrder(b.urgency_level)
    \/ /\ UrgencyOrder(a.urgency_level) = UrgencyOrder(b.urgency_level)
       /\ a.recommended_qty > b.recommended_qty

RECURSIVE InsertRec(_, _)
InsertRec(x, sorted) ==
    IF sorted = <<>> THEN <<x>>
    ELSE IF RecBefore(x, Head(sorted)) THEN <<x>> \o sorted
    ELSE <<Head(sorted)>> \o InsertRec(x, Tail(sorted))

RECURSIVE SortRecs(_)
SortRecs(xs) ==
    IF xs = <<>> THEN <<>>
    ELSE InsertRec(xs[Len(xs)], SortRecs(SubSeq(xs, 1, Len(xs) - 1)))

get_demand_recommendations(liquor_records) == SortRecs(Recommendations(liquor_records))

(***************************************************************************)
(* The handlers and the liquor_data collection                             *)
(*                                                                         *)
(* files   the files the clients upload (fixed during a run)               *)
(* serial  TRUE when the clients send one request after the other          *)
(* store   the documents of db.liquor_data, in insertion order             *)
(* up      per uploading client: where its upload_liquor_data stands, and  *)
(*         its parsed_data                                                 *)
(* reply   the response sent last; none while an upload is being served.   *)
(*         For reference a reading handler's reply holds what it saw, and  *)
(*         an upload's reply the size of the batch committed before it.    *)
(* committed  history: the store as the last finished insert_many left it  *)
(***************************************************************************)
VARIABLES files, serial, store, up, reply, committed

vars == <<files, serial, store, up, reply, committed>>

Uploaders == DOMAIN up

Idle == [pc |-> "idle", parsed_data |-> <<>>]

NoReply == [handler |-> "none", status |-> 0]

\* find().to_list(1000)
to_list_length == 1000

Find(collection) == SubSeq(collection, 1, MinInt(Len(collection), to_list_length))

\* A variant that deletes nothing
delete_many_nothing(collection) == collection

\* delete_many({})
delete_many(collection) == <<>>

\* insert_many(documents), taken as one step of the database
insert_many(collection, documents) == collection \o documents

\* A variant that accepts every file name
ValidFilename_any(filename) == filename # <<>>

\* The file checks and parsing of upload_liquor_data up to the call of
\* delete_many (server.py:499-521): the parsed data, or the HTTPException
ValidFilename(filename) ==
    filename # <<>> /\ \E suffix \in UploadSuffixes : EndsWith(filename, suffix)

\* `if not parsed_data` (server.py:520)
NonEmpty(parsed) ==
    IF parsed.raised # "none" THEN parsed
    ELSE IF parsed.data = <<>>
    THEN HTTPException(400, "No valid data found in the file")
    ELSE parsed

UploadChecks(file) ==
    IF ~ValidFilename(file.filename)
    THEN HTTPException(400, "Invalid file type")
    ELSE IF file.content.kind = "empty"
    THEN HTTPException(400, "Empty file uploaded")
    ELSE NonEmpty(parse_excel_data(file.content))

InFlight(u) == up[u].pc # "idle"

\* The batches of the uploads that have cleared or are about to clear the store
Incoming == {LiquorObjects(up[u].parsed_data) : u \in {v \in Uploaders : InFlight(v)}}

\* The upload goes on to delete_many when its checks passed
UploadChecked(u, checked) ==
    IF checked.raised = "none"
    THEN [up EXCEPT ![u] = [pc |-> "delete_many", parsed_data |-> checked.data]]
    ELSE up

\* and is answered with the HTTPException otherwise
UploadRefusal(checked) ==
    IF checked.raised = "none" THEN NoReply
    ELSE [handler |-> "upload", status |-> checked.status, detail |-> checked.detail,
          error |-> checked.error]

\* POST /upload-data arrives: the handler runs to its first database call.
UploadBegin(u, file) ==
    /\ up[u].pc = "idle"
    /\ serial => \A v \in Uploaders : ~InFlight(v)
    /\ up' = UploadChecked(u, UploadChecks(file))
    /\ reply' = UploadRefusal(UploadChecks(file))
    /\ UNCHANGED <<files, serial, store, committed>>

\* await db.liquor_data.delete_many({})
DeleteMany(u) ==
    /\ up[u].pc = "delete_many"
    /\ store' = delete_many(store)
    /\ up' = [up EXCEPT ![u].pc = "insert_many"]
    /\ UNCHANGED <<files, serial, reply, committed>>

\* The documents are built, await db.liquor_data.insert_many(liquor_objects)
\* runs, and the handler answers 200.
InsertMany(u) ==
    /\ up[u].pc = "insert_many"
    /\ LET liquor_objects == LiquorObjects(up[u].parsed_data)
       IN  /\ store' = IF liquor_objects # <<>> THEN insert_many(store, liquor_objects)
                       ELSE store
           /\ reply' = [handler |-> "upload", status |-> 200,
                        total_records |-> Len(liquor_objects),
                        previous |-> Len(committed)]
    /\ committed' = store'
    /\ up' = [up EXCEPT ![u] = Idle]
    /\ UNCHANGED <<files, serial>>

\* A step after the parsing raises something other than an HTTPException:
\* delete_many fails and the collection is as it was, or, the collection
\* already cleared, LiquorData(**item_data) rejects an item (nothing written)
\* or insert_many fails after `written` of the documents went in.  The
\* handler's except Exception answers 500; nothing restores the collection.
UploadRaises(u, written) ==
    /\ InFlight(u)
    /\ written < Len(up[u].parsed_data)
    /\ up[u].pc = "delete_many" => written = 0
    /\ store' = insert_many(store, SubSeq(LiquorObjects(up[u].parsed_data), 1, written))
    /\ reply' = [handler |-> "upload", status |-> 500,
                 detail |-> "Error processing file: ", error |-> "Exception"]
    /\ up' = [up EXCEPT ![u] = Idle]
    /\ UNCHANGED <<files, serial, committed>>

RECURSIVE SumOf(_, _)
SumOf(xs, f) ==
    IF xs = <<>> THEN QI(0) ELSE QAdd(Head(xs)[f], SumOf(Tail(xs), f))

\* What a reading handler saw: the documents found, and for reference the
\* batch last committed and the batches of the uploads in progress
Seen == [found |-> Find(store), old |-> committed, new |-> Incoming]

\* GET /analytics?overstock_multiplier=m.  The HTTPException(404) is raised
\* inside the try block whose only handler, except Exception, turns it
\* into a 500.
GetAnalytics(multiplier) ==
    /\ serial => \A v \in Uploaders : ~InFlight(v)
    /\ LET liquor_records == Find(store)
           overstocked_items == calculate_overstocking(liquor_records, multiplier)
       IN  reply' = IF liquor_records = <<>>
                    THEN [handler |-> "analytics", status |-> 500, raised |-> 404,
                          seen |-> Seen]
                    ELSE [handler |-> "analytics", status |-> 200,
                          multiplier |-> multiplier,
                          total_brands |-> Len(liquor_records),
                          total_stock_value |-> SumOf(liquor_records, "stock_value_today"),
                          total_overstocked_value |-> SumOf(overstocked_items, "overstock_value"),
                          overstocked_brands |-> Len(overstocked_items),
                          overstocked_items |-> overstocked_items,
                          seen |-> Seen]
    /\ UNCHANGED <<files, serial, store, up, committed>>

\* GET /demand-recommendations
GetDemandRecommendations ==
    /\ serial => \A v \in Uploaders : ~InFlight(v)
    /\ LET liquor_records == Find(store)
       IN  reply' = IF liquor_records = <<>>
                    THEN [handler |-> "demand", status |-> 500, raised |-> 404,
                          seen |-> Seen]
                    ELSE [handler |-> "demand", status |-> 200,
                          recommendations |-> get_demand_recommendations(liquor_records),
                          seen |-> Seen]
    /\ UNCHANGED <<files, serial, store, up, committed>>

\* df_data of export_demand_list: one row per recommendation, Index being
\* the count of enumerate(recommendations_data, 1) (server.py:842-850)
ExportRow(index, rec) ==
    [Index |-> index,
     brand_name |-> rec.brand_name,
     wholesale_rate |-> rec.wholesale_rate,
     quantity_in_stock |-> rec.current_stock_qty,
     quantity_demanded |-> rec.recommended_qty]

ExportRows(recommendations_data) ==
    [i \in 1..Len(recommendations_data) |-> ExportRow(i, recommendations_data[i])]

\* GET /export-demand-list: the handler calls get_demand_recommendations()
\* itself.  With an empty store that call raises (its 404 turned into a
\* 500), with no recommendation the handler raises its own 404; both end in
\* the handler's except Exception, so the answer is a 500.
ExportDemandList ==
    /\ serial => \A v \in Uploaders : ~InFlight(v)
    /\ LET liquor_records == Find(store)
       IN  reply' = IF liquor_records = <<>>
                       \/ get_demand_recommendations(liquor_records) = <<>>
                    THEN [handler |-> "export", status |-> 500, raised |-> 404,
                          seen |-> Seen]
                    ELSE [handler |-> "export", status |-> 200,
                          rows |-> ExportRows(get_demand_recommendations(liquor_records)),
                          seen |-> Seen]
    /\ UNCHANGED <<files, serial, store, up, committed>>

(***************************************************************************)
(* Inputs                                                                  *)
(***************************************************************************)
\* Stock readings range over -1..MaxStock, rates over -1..MaxRate, list
\* quantities over -1..MaxQty
MaxStock == 2

MaxRate == 2

MaxQty == 5

h_brand == Str(<<"B","r","a","n","d"," ","N","a","m","e">>)

h_rate == Str(<<"S","e","l","l","i","n","g"," ","R","a","t","e">>)

h_d25 == Str(<<"2","5","-","A","u","g">>)

h_d26 == Str(<<"2","6","-","A","u","g">>)

h_d27 == Str(<<"2","7","-","A","u","g">>)

h_d28 == Str(<<"2","8","-","A","u","g">>)

d25 == <<"2","5","-","A","u","g">>

d26 == <<"2","6","-","A","u","g">>

d27 == <<"2","7","-","A","u","g">>

n_A == <<"A">>

n_B == <<"B">>

n_X == <<"X">>

name_xlsx == <<"s","t","o","c","k",".","x","l","s","x">>

name_csv == <<"s","t","o","c","k",".","c","s","v">>

name_txt == <<"t","e","s","t",".","t","x","t">>

Excel(cols, rows) ==
    [filename |-> name_xlsx, content |-> [kind |-> "excel", cols |-> cols, rows |-> rows]]

\* Date cells: NaN, a blank string, text float() rejects, a number written
\* with a thousands separator, and numbers
StockNumbers == {Num(n) : n \in -1..MaxStock}

StockCells == {NaN, Str(<<" ">>), Str(<<"n","/","a">>), Str(<<"1",",","2">>)} \cup StockNumbers

PlainStockCells == {NaN} \cup {Num(n) : n \in 0..MaxStock}

RateCells == {NaN, Str(<<"n","/","a">>)} \cup {Num(n) : n \in -1..MaxRate}

\* Brand cells: NaN, blank, names, summary rows, header rows, padded ones
BrandCells == {NaN, Str(<<" ">>), Str(n_A), Str(<<"T","o","t","a","l">>), Str(<<"G","r","a","n","d"," ","T","o","t","a","l">>),
               Str(<<"S","u","m","m","e","r"," ","A","l","e">>), Str(<<"B","R","A","N","D">>), Str(<<"B","r","a","n","d"," ","N","a","m","e">>), Str(<<"n","a","m","e">>),
               Str(<<" ","N","a","m","e">>), Str(<<"n","a","n">>)}

\* One brand over three dates, every kind of date cell
OneRowTables ==
    {Excel(<<h_brand, h_rate, h_d25, h_d26, h_d27>>, <<<<Str(n_A), Num(1), a, b, c>>>>) :
        a \in StockCells, b \in StockCells, c \in StockCells}

\* One brand over two dates, every kind of rate cell
RateTables ==
    {Excel(<<h_brand, h_rate, h_d25, h_d26>>, <<<<Str(n_A), r, a, b>>>>) :
        r \in RateCells, a \in PlainStockCells, b \in PlainStockCells}

\* Two rows, every kind of brand cell in the second
BrandTables ==
    {Excel(<<h_brand, h_rate, h_d25, h_d26>>,
           <<<<Str(n_A), Num(1), Num(2), Num(1)>>, <<n, r, a, b>>>>) :
        n \in BrandCells, r \in {NaN, Num(2)}, a \in PlainStockCells, b \in {NaN, Num(2)}}

\* Two rows of brands A or B over three dates, every reading present
ThreeDateTables ==
    {Excel(<<h_brand, h_rate, h_d25, h_d26, h_d27>>,
           <<<<Str(n_A), Num(1), Num(a1), Num(a2), Num(a3)>>,
             <<Str(n), Num(1), Num(b1), Num(b2), Num(b3)>>>>) :
        n \in {n_A, n_B},
        a1 \in 1..MaxStock, a2 \in 1..MaxStock, a3 \in 1..MaxStock,
        b1 \in 1..MaxStock, b2 \in 1..MaxStock, b3 \in 1..MaxStock}

\* Two rows of brands A or B over two dates
TwoDateTables ==
    {Excel(<<h_brand, h_rate, h_d25, h_d26>>,
           <<<<Str(n_A), Num(1), a1, a2>>, <<Str(n), Num(1), b1, b2>>>>) :
        n \in {n_A, n_B},
        a1 \in PlainStockCells, a2 \in PlainStockCells,
        b1 \in PlainStockCells, b2 \in PlainStockCells}

\* Headerless lists: a name, then product id, rate and quantity; two columns,
\* so that the sheet goes to parse_list_format
ListTables ==
    {Excel(<<Str(n_A), Num(7)>>, <<<<Num(r), Num(q)>>>>) :
        r \in -1..MaxRate, q \in -1..MaxQty}

TwoBrandLists ==
    {Excel(<<Str(n_A), Str(n_B)>>,
           <<<<Num(7), Num(1)>>, <<Num(q1), Num(8)>>, <<Num(2), Num(q2)>>>>) :
        q1 \in 0..MaxQty, q2 \in 0..MaxQty}

\* The scenarios of the specification
ScenarioX ==
    Excel(<<h_brand, h_rate, h_d25, h_d26>>, <<<<Str(n_X), Num(50), Num(100), Num(90)>>>>)

ScenarioAB ==
    Excel(<<h_brand, h_rate, h_d25, h_d26, h_d27>>,
          <<<<Str(n_A), Num(1), Num(50), Num(50), Num(60)>>,
            <<Str(n_B), Num(1), Num(80), Num(70), Num(60)>>>>)

Scenario2900 ==
    Excel(<<h_brand, h_rate, h_d25, h_d26, h_d27, h_d28>>,
          <<<<Str(n_A), Num(1), Num(3025), Num(3000), Num(2950), Num(2900)>>>>)

Scenario3100 ==
    Excel(<<h_brand, h_rate, h_d25, h_d26, h_d27, h_d28>>,
          <<<<Str(n_A), Num(1), Num(3225), Num(3200), Num(3150), Num(3100)>>>>)

Scenarios == {ScenarioX, ScenarioAB, Scenario2900, Scenario3100}

\* Files that upload_liquor_data rejects
BadFiles ==
    {[filename |-> name_txt, content |-> ScenarioX.content],
     [filename |-> name_csv, content |-> [kind |-> "empty", cols |-> <<>>, rows |-> <<>>]],
     [filename |-> name_csv, content |-> [kind |-> "junk", cols |-> <<>>, rows |-> <<>>]]}

SpecFiles ==
    OneRowTables \cup RateTables \cup BrandTables \cup ThreeDateTables \cup TwoDateTables
    \cup ListTables \cup TwoBrandLists \cup Scenarios \cup BadFiles

\* Further headers: rate, index and date wordings, headers no rule matches,
\* and headers that equal or only contain a brand-identifying term
h_index == Str(<<"I","n","d","e","x">>)

h_wholesale == Str(<<"W","h","o","l","e","s","a","l","e"," ","R","a","t","e">>)

h_retail == Str(<<"R","e","t","a","i","l"," ","R","a","t","e">>)

h_generic == Str(<<"R","a","t","e">>)

h_rate_jan == Str(<<"R","a","t","e"," ","J","a","n">>)

h_sl_no == Str(<<"S","l"," ","N","o">>)

h_notes == Str(<<"N","o","t","e","s">>)

h_identifier == Str(<<"I","d","e","n","t","i","f","i","e","r"," ","N","o">>)

h_paid_nov == Str(<<"P","a","i","d"," ","N","o","v">>)

h_index_dec == Str(<<"I","n","d","e","x"," ","D","e","c"," ","2","0","2","4">>)

h_qty == Str(<<"Q","t","y">>)

h_name == Str(<<"N","a","m","e">>)

h_name_padded == Str(<<" ","N","A","M","E"," ">>)

h_product == Str(<<"P","r","o","d","u","c","t">>)

h_product_name == Str(<<"P","r","o","d","u","c","t"," ","N","a","m","e">>)

h_brand_names == Str(<<"B","r","a","n","d"," ","N","a","m","e","s">>)

h_brand_us == Str(<<"b","r","a","n","d","_","n","a","m","e">>)

h_item == Str(<<"I","t","e","m">>)

h_d29 == Str(<<"2","9","-","A","u","g">>)

Csv(cols, rows) ==
    [filename |-> name_csv, content |-> [kind |-> "csv", cols |-> cols, rows |-> rows]]

\* Sheets read as tables in which no header is the brand name column, or
\* none a date reading; as a workbook and as delimited text
MissingColumnTables ==
    {[filename |-> IF k = "csv" THEN name_csv ELSE name_xlsx,
      content |-> [kind |-> k, cols |-> cols, rows |-> <<<<Str(n_A), Num(1), Num(2)>>>>]] :
        k \in {"excel", "csv"},
        cols \in {<<h_name, h_rate, h_d25>>, <<h_brand, h_rate, h_qty>>, <<h_name, h_rate, h_qty>>}}

\* Delimited text that parses
CsvTables ==
    {Csv(<<h_brand, h_rate, h_d25, h_d26>>, <<<<Str(n_A), Num(r), Num(2), Num(1)>>>>) : r \in 1..MaxRate}

\* Index cells: NaN, blank, text without and with digits, and numbers that
\* are not the row's position
IndexCells ==
    {NaN, Str(<<" ">>), Str(<<"n","/","a">>), Str(<<"A","-","3","5","0">>), Num(0), Num(205), Num(-5)}

\* Two rows with an index column; the first row is a brand or a summary row
IndexTables ==
    {Excel(<<h_index, h_brand, h_rate, h_d25, h_d26>>,
           <<<<Num(101), Str(n), Num(1), Num(2), Num(1)>>, <<i, Str(n_B), Num(1), Num(a), Num(1)>>>>) :
        n \in {n_A, <<"T","o","t","a","l">>}, i \in IndexCells, a \in 1..MaxStock}

\* The same rows without an index column
NoIndexTables ==
    {Excel(<<h_brand, h_rate, h_d25, h_d26>>,
           <<<<Str(n), Num(1), Num(2), Num(1)>>, <<Str(n_B), Num(1), Num(a), Num(1)>>>>) :
        n \in {n_A, <<"T","o","t","a","l">>}, a \in 1..MaxStock}

\* One brand over five dates, sold down from the first reading to the last
FiveDateTables ==
    {Excel(<<h_brand, h_rate, h_d25, h_d26, h_d27, h_d28, h_d29>>,
           <<<<Str(n_A), Num(1), Num(a), Num(a), Num(a), Num(a), Num(b)>>>>) :
        a \in {MaxStock + 1, MaxStock + 2}, b \in 0..(MaxStock + 1)}

\* Headerless lists with fewer than three numbers for some brand name
ShortLists ==
    {Excel(<<Str(n_A), Num(7)>>, <<>>),
     Excel(<<Str(n_A), Num(7)>>, <<<<Num(1), NaN>>>>),
     Excel(<<Str(n_A), Num(7)>>, <<<<Num(1), Num(3)>>>>),
     Excel(<<Str(n_A), Str(n_B)>>, <<<<Num(7), Num(1)>>, <<Num(8), NaN>>>>),
     Excel(<<Str(n_A), Str(n_B)>>, <<<<Num(7), Num(1)>>, <<Num(8), Num(2)>>>>),
     Excel(<<Str(n_A), Str(n_B)>>, <<<<Num(7), Num(1)>>, <<Num(3), Num(8)>>, <<Num(2), NaN>>>>),
     Excel(<<Str(n_A), Str(n_B)>>, <<<<Num(7), Num(1)>>, <<Num(3), Num(8)>>, <<Num(2), Num(4)>>>>)}

\* Tables with two further columns, every ordered pair of distinct headers
HeaderPool ==
    {h_wholesale, h_rate, h_retail, h_generic, h_rate_jan, h_index, h_sl_no, h_notes,
     h_identifier, h_paid_nov, h_index_dec, h_qty}

HeaderTables ==
    {Excel(<<h_brand, xy[1], xy[2], h_d25>>, <<<<Str(n_A), Num(5), Num(3), Num(2)>>>>) :
        xy \in {p \in HeaderPool \X HeaderPool : p[1] # p[2]}}

\* Three-column sheets whose first header varies, a two-column sheet with a
\* brand name header, and a sheet whose first header is a number
DetectHeaders ==
    {h_brand, h_name, h_name_padded, h_product, h_product_name, h_brand_names, h_brand_us, h_item}

DetectTables ==
    {Excel(<<h, h_rate, h_d25>>, <<<<Str(n_A), Num(1), Num(2)>>>>) : h \in DetectHeaders}
    \cup {Excel(<<h_brand, h_d25>>, <<<<Str(n_A), Num(2)>>>>),
          Excel(<<Num(7), h_name, h_d25>>, <<<<Num(1), Str(n_A), Num(2)>>>>)}

\* Day-and-month headers, one per month, next to 25-Aug
MonthAbbreviations ==
    {<<"J","a","n">>, <<"F","e","b">>, <<"M","a","r">>, <<"A","p","r">>,
     <<"M","a","y">>, <<"J","u","n">>, <<"J","u","l">>, <<"A","u","g">>,
     <<"S","e","p">>, <<"O","c","t">>, <<"N","o","v">>, <<"D","e","c">>}

DayMonth(day, month) == Str(day \o <<"-">> \o month)

MonthTables ==
    {Excel(<<h_brand, h_rate, h_d25, DayMonth(<<"0","1">>, month)>>,
           <<<<Str(n_A), Num(1), Num(2), Num(1)>>>>) : month \in MonthAbbreviations}

SheetFiles ==
    MissingColumnTables \cup CsvTables \cup IndexTables \cup NoIndexTables \cup FiveDateTables
    \cup ShortLists \cup HeaderTables \cup DetectTables \cup MonthTables \cup ListTables
    \cup BadFiles

\* overstock_multiplier values of the analytics requests
Multipliers == {QI(-1), Q(1, 2), QI(1), QI(3)}

(***************************************************************************)
(* Specifications                                                          *)
(***************************************************************************)
\* One client, one file, requests one after the other
Init ==
    /\ \E f \in SpecFiles : files = {f}
    /\ serial = TRUE
    /\ store = <<>>
    /\ up = [u \in {1} |-> Idle]
    /\ reply = NoReply
    /\ committed = <<>>

\* Two uploading clients and a reading client, requests overlapping
StoreFiles == {ScenarioX, ScenarioAB} \cup BadFiles

InitStore ==
    /\ files = StoreFiles
    /\ serial = FALSE
    /\ store = <<>>
    /\ up = [u \in {1, 2} |-> Idle]
    /\ reply = NoReply
    /\ committed = <<>>

\* One client, one sheet of the families about headers, columns, index cells
\* and short lists
InitSheet ==
    /\ \E f \in SheetFiles : files = {f}
    /\ serial = TRUE
    /\ store = <<>>
    /\ up = [u \in {1} |-> Idle]
    /\ reply = NoReply
    /\ committed = <<>>

Next ==
    \/ \E u \in Uploaders, f \in files : UploadBegin(u, f)
    \/ \E u \in Uploaders : DeleteMany(u)
    \/ \E u \in Uploaders : InsertMany(u)
    \/ \E m \in Multipliers : GetAnalytics(m)
    \/ GetDemandRecommendations
    \/ ExportDemandList

Spec == Init /\ [][Next]_vars

SpecStore == InitStore /\ [][Next]_vars

SpecSheet == InitSheet /\ [][Next]_vars

\* One client, requests one after the other, and a database or a conversion
\* that can fail during an upload
MaxBatch == 2

FaultFiles == Scenarios \cup BadFiles

InitFaults ==
    /\ files = FaultFiles
    /\ serial = TRUE
    /\ store = <<>>
    /\ up = [u \in {1} |-> Idle]
    /\ reply = NoReply
    /\ committed = <<>>

NextFaults ==
    \/ Next
    \/ \E u \in Uploaders, written \in 0..(MaxBatch - 1) : UploadRaises(u, written)

SpecFaults == InitFaults /\ [][NextFaults]_vars

(***************************************************************************)
(* Properties.  Those over one file are stated for Spec, where files holds *)
(* the one file of the run and the store holds what its upload left.  A    *)
(* value used many times is named by a quantifier over its singleton.      *)
(***************************************************************************)
\* The batch of the file is stored and parse_tabular_format produced it
TabularStored(f) == store # <<>> /\ DetectFormat(f.content.cols) = "tabular"

\* The header row parse_tabular_format works with
HeaderOf(f) == StripColumns(f.content.cols)

\* The rows the filter keeps whose brand name the loops accept
RetainedAmong(cols, rows, brand_col) ==
    {rows[i] : i \in {j \in 1..Len(rows) : ~SkippedName(BrandNameOf(cols, rows[j], brand_col))}}

RetainedRows(f, cols, keys) ==
    RetainedAmong(cols, FilterRows(cols, WithHeader(f.content).rows, keys.brand_col[1]),
                  keys.brand_col[1])

\* The row holds a reading at both labels and the later one is greater
RowIncreases(cols, row, prev_date, curr_date) ==
    /\ NotNa(CellAt(cols, row, prev_date))
    /\ NotNa(CellAt(cols, row, curr_date))
    /\ QLt(D1Reading(CellAt(cols, row, prev_date)), D1Reading(CellAt(cols, row, curr_date)))

\* The positions in the sorted labels at which some row increases
IncreasesAmong(cols, rows, sorted_dates) ==
    {i \in 2..Len(sorted_dates) :
        \E row \in rows : RowIncreases(cols, row, sorted_dates[i - 1], sorted_dates[i])}

\* The later label of the first pair with an increase, the first label if
\* there is none
AnchorAt(sorted_dates, positions) ==
    IF positions = {} THEN sorted_dates[1]
    ELSE sorted_dates[CHOOSE i \in positions : \A j \in positions : i <= j]

\* The label is one of the labels and no label is less
LeastLabel(label, sorted_dates) ==
    /\ \E k \in 1..Len(sorted_dates) : label = sorted_dates[k]
    /\ \A k \in 1..Len(sorted_dates) : StrLe(label, sorted_dates[k])

\* The records hold one anchor date, one of the labels, that is the least
\* label when no position has an increase
OneAnchor(records, sorted_dates, positions) ==
    /\ \A i \in 1..Len(records) : records[i].D1_date = records[1].D1_date
    /\ \E k \in 1..Len(sorted_dates) : records[1].D1_date = sorted_dates[k]
    /\ positions = {} => LeastLabel(records[1].D1_date, sorted_dates)

\* stock_value_today > monthly_sales_value * multiplier and monthly_sales_value > 0
AboveThreshold(record, m) ==
    /\ QLt(QMul(record.monthly_sale_value, m), record.stock_value_today)
    /\ QLt(QI(0), record.monthly_sale_value)

\* The entry reports the record's stock value less the threshold
ReportsExcess(entry, record, m) ==
    /\ entry.brand_name = record.brand_name
    /\ entry.overstock_value =
           QSub(record.stock_value_today, QMul(record.monthly_sale_value, m))

\* C1: a read that overlaps an upload returns the complete batch stored
\* before the upload or the complete batch of an upload in progress, never a
\* store that was cleared and not yet written.
C1_ReadSeesOldOrNewBatch ==
    reply.handler \in {"analytics", "demand"} =>
        \/ reply.seen.found = reply.seen.old
        \/ reply.seen.found \in reply.seen.new

\* C2: when the file is uploaded again after an upload of it has finished,
\* the store holds as many records after the second upload as after the first.
C2_ReuploadKeepsBatchSize ==
    (reply.handler = "upload" /\ reply.status = 200 /\ reply.previous > 0) =>
        Len(store) = reply.previous

\* A second upload of the file has finished.
C2_Reuploaded ==
    /\ reply.handler = "upload" /\ reply.status = 200
    /\ reply.previous > 0
    /\ store # <<>>

\* C3: for the stored batch and multipliers 0 < m1 < m2, calculate_overstocking
\* flags at least as many brands with m1 as with m2.
C3_OverstockCountMonotone ==
    \A m1 \in Multipliers, m2 \in Multipliers :
        (QLt(QI(0), m1) /\ QLt(m1, m2)) =>
            Len(calculate_overstocking(Find(store), m1))
                >= Len(calculate_overstocking(Find(store), m2))

\* A stored batch of which the smaller multiplier flags more brands.
C3_CountDrops ==
    \E m1 \in Multipliers, m2 \in Multipliers :
        /\ QLt(QI(0), m1) /\ QLt(m1, m2)
        /\ Len(calculate_overstocking(Find(store), m1))
               > Len(calculate_overstocking(Find(store), m2))

\* C4: the analytics response lists a record as overstocked if and only if
\* stock_value_today > monthly_sale_value * multiplier and monthly_sale_value
\* > 0, with overstock_value = stock_value_today - threshold; with multiplier
\* 3 and monthly_sale_value 1000, stock value 2900 is not listed and 3100 is
\* listed with overstock_value 100.
C4_FlaggedIffAboveThreshold ==
    (reply.handler = "analytics" /\ reply.status = 200) =>
        /\ Len(reply.overstocked_items) =
               Cardinality({i \in 1..Len(reply.seen.found) :
                               AboveThreshold(reply.seen.found[i], reply.multiplier)})
        /\ \A k \in 1..Len(reply.overstocked_items) :
               \E i \in 1..Len(reply.seen.found) :
                   /\ AboveThreshold(reply.seen.found[i], reply.multiplier)
                   /\ ReportsExcess(reply.overstocked_items[k], reply.seen.found[i],
                                    reply.multiplier)
        /\ \A i \in 1..Len(reply.seen.found) :
               AboveThreshold(reply.seen.found[i], reply.multiplier) =>
                   \E k \in 1..Len(reply.overstocked_items) :
                       ReportsExcess(reply.overstocked_items[k], reply.seen.found[i],
                                     reply.multiplier)
        /\ (files = {Scenario2900} /\ reply.multiplier = QI(3)) =>
               /\ reply.seen.found[1].monthly_sale_value = QI(1000)
               /\ reply.seen.found[1].stock_value_today = QI(2900)
               /\ reply.overstocked_items = <<>>
        /\ (files = {Scenario3100} /\ reply.multiplier = QI(3)) =>
               /\ reply.seen.found[1].monthly_sale_value = QI(1000)
               /\ reply.seen.found[1].stock_value_today = QI(3100)
               /\ Len(reply.overstocked_items) = 1
               /\ reply.overstocked_items[1].overstock_value = QI(100)

\* The analytics response for stock value 3100, monthly sales 1000 and
\* multiplier 3 lists the brand.
C4_Flagged3100 ==
    /\ files = {Scenario3100}
    /\ reply.handler = "analytics" /\ reply.status = 200
    /\ reply.multiplier = QI(3)
    /\ reply.overstocked_brands = 1

\* C5: every record of a batch of either parser with monthly_sale_value <= 0
\* has stock_ratio 0 and is flagged by calculate_overstocking for no multiplier.
C5_NoSalesNoRatioNoFlag ==
    \A i \in 1..Len(store) :
        QLe(store[i].monthly_sale_value, QI(0)) =>
            /\ store[i].stock_ratio = QI(0)
            /\ \A m \in Multipliers : calculate_overstocking(<<store[i]>>, m) = <<>>

\* C6: every stored record with avg_daily_sales_qty 0 has stock_available_days
\* 999.
C6_NoSalesMeans999Days ==
    \A i \in 1..Len(store) :
        store[i].avg_daily_sales_qty = QI(0) => store[i].stock_available_days = QI(999)

\* C7: the anchor date of a tabular batch is the later label of the first
\* pair of consecutive sorted date labels at which some retained row, rows
\* that share a brand name included, reads more at the later label than at
\* the earlier one, and the first label when there is no such pair; for
\* A = 50, 50, 60 and B = 80, 70, 60 it is the third date.
C7_AnchorFromEveryRetainedRow ==
    \A f \in files :
        TabularStored(f) =>
            /\ \A cols \in {HeaderOf(f)} : \A keys \in {ClassifyColumns(cols)} :
                   \A rows \in {RetainedRows(f, cols, keys)} :
                       store[1].D1_date =
                           AnchorAt(keys.date_columns,
                                    IncreasesAmong(cols, rows, keys.date_columns))
            /\ f = ScenarioAB => store[1].D1_date = d27

\* C8: the records of a tabular batch all hold one D1_date, it is one of the
\* date columns found, and it is the least date label when no retained row
\* reads more at a label than at the label before it.
C8_OneRecognizedAnchor ==
    \A f \in files :
        TabularStored(f) =>
            \A cols \in {HeaderOf(f)} : \A keys \in {ClassifyColumns(cols)} :
                \A rows \in {RetainedRows(f, cols, keys)} :
                    OneAnchor(store, keys.date_columns,
                              IncreasesAmong(cols, rows, keys.date_columns))

\* A stored tabular batch of two records none of whose rows increases.
C8_TwoRecordsNoIncrease ==
    \E f \in files :
        /\ TabularStored(f)
        /\ Len(store) = 2
        /\ \E cols \in {HeaderOf(f)} : \E keys \in {ClassifyColumns(cols)} :
               \E rows \in {RetainedRows(f, cols, keys)} :
                   /\ Len(keys.date_columns) >= 2
                   /\ IncreasesAmong(cols, rows, keys.date_columns) = {}

\* C9: the table with brand X, selling rate 50, no wholesale rate and the
\* readings 100 at 25-Aug and 90 at 26-Aug gives wholesale_rate 45, anchor
\* 25-Aug, total_sales_qty 10, days_analyzed 1, avg_daily_sales_qty 10,
\* monthly_sales_qty 240, monthly_sale_value 12000, stock_value_today 4500,
\* stock_ratio 0.375 and stock_available_days 9, and the demand
\* recommendation for it has urgency HIGH.
C9_ScenarioX ==
    files = {ScenarioX} =>
        /\ store # <<>> =>
               /\ Len(store) = 1
               /\ parse_tabular_format(WithHeader(ScenarioX.content)).data[1].monthly_sales_qty
                      = QI(240)
               /\ store[1].brand_name = n_X
               /\ store[1].selling_rate = QI(50)
               /\ store[1].wholesale_rate = QI(45)
               /\ store[1].D1_date = d25
               /\ store[1].total_sales_qty = QI(10)
               /\ store[1].days_analyzed = 1
               /\ store[1].avg_daily_sales_qty = QI(10)
               /\ store[1].monthly_sale_qty = 240
               /\ store[1].monthly_sale_value = QI(12000)
               /\ store[1].stock_value_today = QI(4500)
               /\ store[1].stock_ratio = Q(375, 1000)
               /\ store[1].stock_available_days = QI(9)
        /\ (reply.handler = "demand" /\ reply.status = 200) =>
               /\ Len(reply.recommendations) = 1
               /\ reply.recommendations[1].brand_name = n_X
               /\ reply.recommendations[1].urgency_level = "HIGH"

\* The demand recommendations for the stored table of brand X were served.
C9_ScenarioXRecommended ==
    /\ files = {ScenarioX}
    /\ store # <<>>
    /\ reply.handler = "demand" /\ reply.status = 200

\* C10: no record of a tabular batch has a brand name that is blank, that
\* contains "total" or "sum" in any case, or that equals "brand name", "name"
\* or "brand" in any case.
C10_NoSummaryOrHeaderNames ==
    \A f \in files :
        TabularStored(f) =>
            \A i \in 1..Len(store) :
                /\ Strip(store[i].brand_name) # <<>>
                /\ ~Contains(Lower(store[i].brand_name), s_total)
                /\ ~Contains(Lower(store[i].brand_name), s_sum)
                /\ Lower(store[i].brand_name) \notin {s_brand_name, s_name, s_brand}

(***************************************************************************)
(* Properties of the columns, the index, the demand list and the errors.   *)
(* Those over one file are stated for SpecSheet.                           *)
(***************************************************************************)
\* The upload of the one file of the run was answered last
UploadAnswered == reply.handler = "upload"

\* The file passes the upload checks and its sheet is read as a table
ReadAsTable(f) ==
    /\ ValidFilename(f.filename)
    /\ f.content.kind \in {"excel", "csv"}
    /\ f.content.rows # <<>>
    /\ DetectFormat(f.content.cols) = "tabular"

\* The classifier finds no brand name column, or no date reading
LacksRequiredColumn(keys) == keys.brand_col = NoCol \/ keys.date_columns = <<>>

\* The details of the two HTTPExceptions that name the missing column
MissingColumnDetails ==
    {"Could not find 'Brand Name' column in the file",
     "Could not find date columns for daily stock data"}

\* C11: when a sheet read as a table has no header classified as the brand
\* name column, or none classified as a date reading, the upload is answered
\* with status 400 and the error that names the missing column, either as the
\* detail or as the error text the detail ends with, and nothing is stored.
C11_MissingColumnError ==
    \A f \in files :
        (UploadAnswered /\ ReadAsTable(f)) =>
            \A keys \in {ClassifyColumns(HeaderOf(f))} :
                LacksRequiredColumn(keys) =>
                    /\ reply.status = 400
                    /\ reply.detail \in MissingColumnDetails
                       \/ reply.error \in MissingColumnDetails
                    /\ store = <<>>

\* The name ends in none of .xlsx, .xls, .csv
InvalidName(filename) == \A suffix \in UploadSuffixes : ~EndsWith(filename, suffix)

\* C12: an upload request whose file name does not end in .xlsx, .xls or
\* .csv is answered with status 400 "Invalid file type", whatever the file
\* holds; nothing of the file is parsed or kept by the handler, and the
\* stored batch after the request is the stored batch before it.
C12_InvalidNameRefused ==
    [][\A u \in Uploaders :
          \A f \in files :
              (UploadBegin(u, f) /\ InvalidName(f.filename)) =>
                  /\ reply'.handler = "upload"
                  /\ reply'.status = 400
                  /\ reply'.detail = "Invalid file type"
                  /\ reply'.error = ""
                  /\ up' = up
                  /\ store' = store]_vars

\* A file with an invalid name, whose sheet would parse, was refused while a
\* batch is stored.
C12_RefusedWithBatchStored ==
    /\ reply.handler = "upload"
    /\ reply.status = 400
    /\ reply.detail = "Invalid file type"
    /\ store # <<>>
    /\ \E f \in files : InvalidName(f.filename) /\ parse_excel_data(f.content).raised = "none"

\* C13: an analytics request that finds no stored document is answered with
\* status 404, and one that finds documents with status 200.
C13_AnalyticsStatus ==
    reply.handler = "analytics" =>
        /\ reply.seen.found = <<>> => reply.status = 404
        /\ reply.seen.found # <<>> => reply.status = 200

\* C14: every data row of the demand export carries, as its Index, the
\* index_number of a stored record of the row's brand.
C14_ExportIndexIsIndexNumber ==
    (reply.handler = "export" /\ reply.status = 200) =>
        \A i \in 1..Len(reply.rows) :
            \E k \in 1..Len(reply.seen.found) :
                /\ reply.seen.found[k].brand_name = reply.rows[i].brand_name
                /\ reply.seen.found[k].index_number = reply.rows[i].Index

\* The rows the filter keeps whose brand name the loops accept, in sheet order
RetainedInOrder(cols, rows, brand_col) ==
    LET Kept(row) == ~SkippedName(BrandNameOf(cols, row, brand_col))
    IN  SelectSeq(rows, Kept)

RetainedSeq(f, cols, keys) ==
    RetainedInOrder(cols, FilterRows(cols, WithHeader(f.content).rows, keys.brand_col[1]),
                    keys.brand_col[1])

\* n is the integer that the first run of digits of the text spells
FirstIntegerIn(t, n) ==
    \E a \in 1..Len(t) :
        \E b \in a..Len(t) :
            /\ \A m \in 1..(a - 1) : ~IsDigit(t[m])
            /\ \A m \in a..b : IsDigit(t[m])
            /\ b < Len(t) => ~IsDigit(t[b + 1])
            /\ n = DigitsValue(SubSeq(t, a, b), 0)

HoldsNoDigit(t) == \A m \in 1..Len(t) : ~IsDigit(t[m])

\* The index_number the row is to get: from its index cell when there is an
\* index column and the cell holds a number, else its 1-based sheet position
IndexAsInSheet(cell, position, n) ==
    IF cell.k = "num" /\ cell.v >= 0 THEN n = cell.v
    ELSE IF cell.k = "nan" \/ HoldsNoDigit(StrOf(cell)) THEN n = position
    ELSE FirstIntegerIn(StrOf(cell), n)

IndexOfRow(cols, row, index_col, n) ==
    IF index_col = NoCol THEN n = row.idx + 1
    ELSE IndexAsInSheet(CellAt(cols, row, index_col[1]), row.idx + 1, n)

\* C15: the records of a tabular batch are those of the retained rows, in
\* order, and each record's index_number is the integer in the row's index
\* cell (the number itself for a whole number that is not negative, otherwise
\* the integer its first run of digits spells) when there is an index column
\* and the cell holds a digit, and the row's 1-based position in the sheet
\* when there is no index column or the cell is empty or holds no digit.
C15_IndexNumber ==
    \A f \in files :
        TabularStored(f) =>
            \A cols \in {HeaderOf(f)} :
                \A keys \in {ClassifyColumns(cols)} :
                    \A rows \in {RetainedSeq(f, cols, keys)} :
                        /\ Len(rows) = Len(store)
                        /\ \A k \in 1..Len(store) :
                               IndexOfRow(cols, rows[k], keys.index_col, store[k].index_number)

\* A batch is stored in which the record of the sheet's second row has the
\* index 205 of its index cell, the first row being a summary row.
C15_NonSequentialIndexKept ==
    /\ \E f \in IndexTables : files = {f} /\ Len(f.content.rows) = 2
    /\ Len(store) = 1
    /\ store[1].index_number = 205

\* The demand recommendations were served for a stored batch
DemandServed == reply.handler = "demand" /\ reply.status = 200

\* The record the recommendation was made from: same brand, same stock
RecordOf(rec, record) ==
    /\ record.brand_name = rec.brand_name
    /\ record.current_stock_qty = rec.current_stock_qty

\* max(0, target_qty - current_stock_qty) capped at 2 * current_stock_qty
CappedDemand(target_qty, current_stock_qty) ==
    QMin(QMax(QI(0), QSub(target_qty, QI(current_stock_qty))), QI(2 * current_stock_qty))

WithinCap(rec) ==
    0 <= rec.recommended_qty /\ rec.recommended_qty <= 2 * rec.current_stock_qty

\* C16 as stated, target_qty being the product avg_daily_sales_qty * 30
\* itself: every returned recommendation has recommended_qty =
\* max(0, target_qty - current_stock_qty) capped at 2 * current_stock_qty,
\* and so lies between 0 and 2 * current_stock_qty.
C16_TargetIsProduct ==
    DemandServed =>
        \A i \in 1..Len(reply.recommendations) :
            \A rec \in {reply.recommendations[i]} :
                /\ WithinCap(rec)
                /\ \E k \in 1..Len(reply.seen.found) :
                       /\ RecordOf(rec, reply.seen.found[k])
                       /\ QI(rec.recommended_qty)
                              = CappedDemand(QMul(reply.seen.found[k].avg_daily_sales_qty, QI(30)),
                                             rec.current_stock_qty)

\* C16, amended: target_qty is avg_daily_sales_qty * 30 truncated to a whole
\* number; with that target every returned recommendation has
\* recommended_qty = max(0, target_qty - current_stock_qty) capped at
\* 2 * current_stock_qty, and 0 <= recommended_qty <= 2 * current_stock_qty.
C16_TargetIsTruncatedProduct ==
    DemandServed =>
        \A i \in 1..Len(reply.recommendations) :
            \A rec \in {reply.recommendations[i]} :
                /\ WithinCap(rec)
                /\ \E k \in 1..Len(reply.seen.found) :
                       /\ RecordOf(rec, reply.seen.found[k])
                       /\ QI(rec.recommended_qty)
                              = CappedDemand(QI(QInt(QMul(reply.seen.found[k].avg_daily_sales_qty,
                                                          QI(30)))),
                                             rec.current_stock_qty)

\* A recommendation was returned for a record whose avg_daily_sales_qty * 30
\* is not a whole number, with a quantity that is neither zero nor the cap.
C16_TruncatedTargetUsed ==
    /\ DemandServed
    /\ \E i \in 1..Len(reply.recommendations) :
           \E k \in 1..Len(reply.seen.found) :
               /\ RecordOf(reply.recommendations[i], reply.seen.found[k])
               /\ QMul(reply.seen.found[k].avg_daily_sales_qty, QI(30))
                      # QI(QInt(QMul(reply.seen.found[k].avg_daily_sales_qty, QI(30))))
               /\ reply.recommendations[i].recommended_qty > 0
               /\ reply.recommendations[i].recommended_qty
                      < 2 * reply.recommendations[i].current_stock_qty

\* Urgency by the thresholds on stock_available_days
UrgencyOfDays(days) ==
    CASE QLt(days, QI(10)) -> "HIGH"
      [] ~QLt(days, QI(10)) /\ QLt(days, QI(20)) -> "MEDIUM"
      [] ~QLt(days, QI(20)) /\ QLt(days, QI(30)) -> "LOW"
      [] OTHER -> "NONE"

\* recommended_qty of a record before the cap
DemandOf(record) ==
    MaxInt(0, QInt(QMul(record.avg_daily_sales_qty, QI(30))) - record.current_stock_qty)

\* C17: a stored record, of either parsing path, appears in the demand
\* recommendation list if and only if its urgency (HIGH under 10
\* stock_available_days, MEDIUM under 20, LOW under 30, else NONE) is not
\* NONE or its recommended_qty is greater than 5, and it appears with that
\* urgency.
C17_ListedIffUrgentOrDemanded ==
    DemandServed =>
        \A k \in 1..Len(reply.seen.found) :
            \A record \in {reply.seen.found[k]} :
                /\ (UrgencyOfDays(record.stock_available_days) # "NONE" \/ DemandOf(record) > 5)
                       <=> \E i \in 1..Len(reply.recommendations) :
                               RecordOf(reply.recommendations[i], record)
                /\ \A i \in 1..Len(reply.recommendations) :
                       RecordOf(reply.recommendations[i], record) =>
                           reply.recommendations[i].urgency_level
                               = UrgencyOfDays(record.stock_available_days)

\* The file passes the upload checks and its sheet is read as a headerless list
ReadAsList(f) ==
    /\ ValidFilename(f.filename)
    /\ f.content.kind \in {"excel", "csv"}
    /\ DetectFormat(f.content.cols) = "list"

\* The cells of the sheet, flattened as parse_list_format flattens them
CellsOf(f) == AllData(Headerless(f.content).rows)

\* C18: when a sheet read as a headerless list holds fewer numeric cells
\* than 3 times the brand names found, parsing fails: no batch is stored
\* from it and its upload is answered with the client error status 400.
C18_ThreeNumbersPerBrand ==
    \A f \in files :
        ReadAsList(f) =>
            \A all_data \in {CellsOf(f)} :
                (/\ BrandNames(all_data) # <<>>
                 /\ Len(NumericalData(all_data)) < 3 * Len(BrandNames(all_data))) =>
                    /\ store = <<>>
                    /\ UploadAnswered => reply.status = 400

\* No key column found yet
NoKeys ==
    [brand_col |-> NoCol, wholesale_rate_col |-> NoCol, selling_rate_col |-> NoCol,
     index_col |-> NoCol, date_columns |-> <<>>]

\* The rule of a role, numbered in the order of testing, holds of a header
\* (low its lower-cased text) when the key columns found so far are `before`
RuleHolds(rule, col, low, before) ==
    CASE rule = 1 -> Contains(low, s_brand) /\ Contains(low, s_name)
      [] rule = 2 -> Contains(low, s_wholesale) /\ Contains(low, s_rate)
      [] rule = 3 -> Contains(low, s_rate) /\ (Contains(low, s_selling) \/ Contains(low, s_retail))
      [] rule = 4 -> /\ Contains(low, s_rate)
                     /\ before.wholesale_rate_col = NoCol
                     /\ before.selling_rate_col = NoCol
      [] rule = 5 -> Len(col) <= 10 /\ \E term \in IndexTerms : Contains(low, term)
      [] rule = 6 -> \E month \in MonthTerms : Contains(low, month)

\* The first rule that holds, 0 when none does
FirstRule(col, low, before) ==
    IF \E rule \in 1..6 : RuleHolds(rule, col, low, before)
    THEN CHOOSE rule \in 1..6 :
             /\ RuleHolds(rule, col, low, before)
             /\ \A earlier \in 1..(rule - 1) : ~RuleHolds(earlier, col, low, before)
    ELSE 0

\* The key columns once the header got the role of the rule
WithRole(rule, col, before) ==
    CASE rule = 1 -> [before EXCEPT !.brand_col = <<col>>]
      [] rule = 2 -> [before EXCEPT !.wholesale_rate_col = <<col>>]
      [] rule \in {3, 4} -> [before EXCEPT !.selling_rate_col = <<col>>]
      [] rule = 5 -> [before EXCEPT !.index_col = <<col>>]
      [] rule = 6 -> [before EXCEPT !.date_columns = Append(@, col)]
      [] OTHER -> before

\* The sheet without its i-th column
WithoutColumn(content, i) ==
    [kind |-> content.kind,
     cols |-> SubSeq(content.cols, 1, i - 1) \o SubSeq(content.cols, i + 1, Len(content.cols)),
     rows |-> [r \in 1..Len(content.rows) |->
                  SubSeq(content.rows[r], 1, i - 1)
                  \o SubSeq(content.rows[r], i + 1, Len(content.rows[r]))]]

\* C19: in a sheet read as a table, every header gets the role of the first
\* rule it matches, the rules being tested on the lower-cased header in the
\* order brand name, wholesale rate, selling rate, generic rate while no rate
\* column is assigned yet, index or serial, date reading; a header matching
\* no rule changes no key column, and the records are those of the sheet
\* without that column.
C19_FirstMatchingRole ==
    \A f \in files :
        (ReadAsTable(f) /\ AllStrings(f.content.cols)) =>
            \A cols \in {HeaderOf(f)} :
                \A i \in 1..Len(cols) :
                    \A before \in {ClassifyFrom(SubSeq(cols, 1, i - 1), NoKeys)} :
                        \A rule \in {FirstRule(cols[i], Lower(cols[i]), before)} :
                            /\ ClassifyFrom(SubSeq(cols, 1, i), NoKeys)
                                   = WithRole(rule, cols[i], before)
                            /\ rule = 0 =>
                                   parse_tabular_format(WithHeader(WithoutColumn(f.content, i)))
                                       = parse_tabular_format(WithHeader(f.content))

\* A batch is stored from a sheet in which a header with "rate" and a month
\* came after the selling rate column and is a date reading.
C19_LaterRulesApplied ==
    /\ store # <<>>
    /\ \E f \in files :
           \E keys \in {ClassifyColumns(HeaderOf(f))} :
               /\ ReadAsTable(f)
               /\ keys.selling_rate_col = <<h_rate.s>>
               /\ \E k \in 1..Len(keys.date_columns) : keys.date_columns[k] = h_rate_jan.s

\* The header, lower-cased and trimmed, equals or contains a brand term
NamesABrand(header) ==
    /\ header.k = "str"
    /\ \E term \in BrandHeaderTerms :
           \/ Strip(Lower(header.s)) = term
           \/ Contains(Strip(Lower(header.s)), term)

\* C20: once the upload of a readable sheet was handled, the sheet was taken
\* as a table exactly when it has at least 3 columns and some header,
\* lower-cased and trimmed, equals or contains one of "brand name",
\* "brand_name", "product", "name"; otherwise it was taken as a headerless
\* list.
C20_TabularIffBrandHeader ==
    \A f \in files :
        (/\ UploadAnswered \/ store # <<>>
         /\ ValidFilename(f.filename)
         /\ f.content.kind \in {"excel", "csv"}) =>
            \A cols \in {f.content.cols} :
                IF Len(cols) >= 3 /\ \E i \in 1..Len(cols) : NamesABrand(cols[i])
                THEN DetectFormat(cols) = "tabular"
                ELSE DetectFormat(cols) = "list"

(***************************************************************************)
(* Properties of the per-row reconstruction, the store under overlapping   *)
(* and failing uploads, and the detector against the classifier.           *)
(***************************************************************************)
\* The retained rows that have a reading STEP 2 accepts, in sheet order: the
\* k-th of them is the source row of the k-th record
RecordedRows(cols, rows, date_columns) ==
    LET Recorded(row) == ValidStockValues(cols, row, date_columns) # <<>>
    IN  SelectSeq(rows, Recorded)

SourceRows(f, cols, keys) ==
    RecordedRows(cols, RetainedSeq(f, cols, keys), keys.date_columns)

\* The cell of the row under a date label is present, and its reading
PresentAt(cols, row, label) == StockPresent(CellAt(cols, row, label))

ReadingAt(cols, row, label) == StockQty(CellAt(cols, row, label))

\* The labels up to the anchor under which the row has a present cell
PresentUpTo(cols, row, date_columns, anchor) ==
    {date_columns[i] : i \in {j \in 1..Len(date_columns) :
                                  /\ StrLe(date_columns[j], anchor)
                                  /\ PresentAt(cols, row, date_columns[j])}}

\* The reading under the greatest of the labels, 0 when there is none
LastReadingAmong(cols, row, labels) ==
    IF labels = {} THEN QI(0)
    ELSE ReadingAt(cols, row, CHOOSE d \in labels : \A e \in labels : StrLe(e, d))

\* C21: D1_stock of every record of a tabular batch is the row's reading at
\* the record's anchor label D1_date; when that reading is 0 or the cell is
\* absent it is the row's last present reading at a label up to the anchor
\* label, 0 if there is none.
C21_AnchorStock ==
    \A f \in files :
        TabularStored(f) =>
            \A cols \in {HeaderOf(f)} :
                \A keys \in {ClassifyColumns(cols)} :
                    \A rows \in {SourceRows(f, cols, keys)} :
                        /\ Len(rows) = Len(store)
                        /\ \A k \in 1..Len(store) :
                               store[k].D1_stock
                                   = IF /\ PresentAt(cols, rows[k], store[k].D1_date)
                                        /\ ReadingAt(cols, rows[k], store[k].D1_date) # QI(0)
                                     THEN ReadingAt(cols, rows[k], store[k].D1_date)
                                     ELSE LastReadingAmong(cols, rows[k],
                                              PresentUpTo(cols, rows[k], keys.date_columns,
                                                          store[k].D1_date))

\* The number of date columns under which the row's cell is present
PresentCount(cols, row, date_columns) ==
    Cardinality({i \in 1..Len(date_columns) : PresentAt(cols, row, date_columns[i])})

\* C22: for every record of a tabular batch, days_analyzed is max(1, P - 1)
\* with P the number of date columns whose cell is present in the source
\* row, whatever the cell's value, and daily_stock holds one entry per date
\* column, in the order of the date columns.
C22_DaysAnalyzed ==
    \A f \in files :
        TabularStored(f) =>
            \A cols \in {HeaderOf(f)} :
                \A keys \in {ClassifyColumns(cols)} :
                    \A rows \in {SourceRows(f, cols, keys)} :
                        /\ Len(rows) = Len(store)
                        /\ \A k \in 1..Len(store) :
                               /\ store[k].days_analyzed
                                      = MaxInt(1, PresentCount(cols, rows[k], keys.date_columns) - 1)
                               /\ Len(store[k].daily_sales) = Len(keys.date_columns)
                               /\ \A i \in 1..Len(keys.date_columns) :
                                      store[k].daily_sales[i].key = keys.date_columns[i]

\* The rate the row gives in a rate column: 0 when it gives none
SourceRate(cols, row, rate_col) == RateOf(cols, row, rate_col)

\* The stored rates of a record, given the rates w and s of its source row
RatesAsDerived(record, w, s) ==
    /\ QLe(QI(0), record.wholesale_rate)
    /\ QLe(QI(0), record.selling_rate)
    /\ (w # QI(0) \/ s # QI(0)) =>
           (record.wholesale_rate # QI(0) \/ record.selling_rate # QI(0))
    /\ (w = QI(0) /\ QLt(QI(0), s)) =>
           (record.selling_rate = s /\ record.wholesale_rate = QMul(Q(9, 10), s))
    /\ (s = QI(0) /\ QLt(QI(0), w)) =>
           (record.wholesale_rate = w /\ record.selling_rate = QDiv(w, Q(9, 10)))

\* C23: for every record of a tabular batch, wholesale_rate and selling_rate
\* are not negative, they are not both zero when the source row gives a rate
\* other than zero in either rate column, and when one of the two is given
\* and the other is not, the other is derived: wholesale = 0.9 * selling,
\* selling = wholesale / 0.9.
C23_RatesNonNegative ==
    \A f \in files :
        TabularStored(f) =>
            \A cols \in {HeaderOf(f)} :
                \A keys \in {ClassifyColumns(cols)} :
                    \A rows \in {SourceRows(f, cols, keys)} :
                        /\ Len(rows) = Len(store)
                        /\ \A k \in 1..Len(store) :
                               RatesAsDerived(store[k],
                                              SourceRate(cols, rows[k], keys.wholesale_rate_col),
                                              SourceRate(cols, rows[k], keys.selling_rate_col))

\* The retained rows with at least one present date cell, in sheet order
RowsWithReading(cols, rows, date_columns) ==
    LET HasReading(row) == PresentCount(cols, row, date_columns) > 0
    IN  SelectSeq(rows, HasReading)

\* The batch holds one record per row, in order, under the row's brand name
OneRecordPerRow(cols, rows, brand_col, batch) ==
    /\ Len(batch) = Len(rows)
    /\ \A k \in 1..Len(batch) : batch[k].brand_name = BrandNameOf(cols, rows[k], brand_col)

\* C24: for a sheet read as a table with a brand name column and date
\* columns, the stored batch holds exactly one record for each retained row
\* with at least one present date cell, in sheet order, and none for the
\* other rows; the upload is refused only when no retained row has a present
\* date cell.
C24_OneRecordPerRowWithReading ==
    \A f \in files :
        (ReadAsTable(f) /\ AllStrings(f.content.cols)) =>
            \A cols \in {HeaderOf(f)} :
                \A keys \in {ClassifyColumns(cols)} :
                    ~LacksRequiredColumn(keys) =>
                        \A rows \in {RowsWithReading(cols, RetainedSeq(f, cols, keys),
                                                     keys.date_columns)} :
                            /\ store # <<>> =>
                                   OneRecordPerRow(cols, rows, keys.brand_col[1], store)
                            /\ (UploadAnswered /\ reply.status = 400) => rows = <<>>

\* The batches of the files the upload checks accept
Batches ==
    {LiquorObjects(UploadChecks(f).data) : f \in {g \in files : UploadChecks(g).raised = "none"}}

\* C25: when an upload has answered 200 and no upload is in progress, the
\* store holds exactly the batch of one uploaded file, whatever the
\* interleaving of the delete_many and insert_many steps of the uploads was.
C25_StoreIsOneBatch ==
    (/\ reply.handler = "upload"
     /\ reply.status = 200
     /\ \A u \in Uploaders : ~InFlight(u)) =>
        store \in Batches

\* An upload was answered with an error
UploadFailed == reply.handler = "upload" /\ reply.status \in {400, 500}

\* C26: when an upload was answered with an error, whichever step failed
\* (the checks, the parsing, the conversion of the parsed items or the
\* insert), the store holds the whole batch that the last successful upload
\* left, neither less nor anything else.
C26_FailedUploadKeepsBatch ==
    UploadFailed => store = committed

\* The stored records, by position, whose stock_available_days give an urgency
Urgent(found) ==
    {k \in 1..Len(found) : UrgencyOfDays(found[k].stock_available_days) # "NONE"}

\* C27: every recommendation the demand recommender returns has urgency
\* HIGH, MEDIUM or LOW; a stored record whose stock_available_days give
\* urgency NONE has a recommended_qty of at most 5 and is not returned, so
\* that no more recommendations are returned than there are records with an
\* urgency.
C27_ReturnedAreUrgent ==
    DemandServed =>
        /\ \A i \in 1..Len(reply.recommendations) :
               reply.recommendations[i].urgency_level \in {"HIGH", "MEDIUM", "LOW"}
        /\ \A k \in 1..Len(reply.seen.found) :
               UrgencyOfDays(reply.seen.found[k].stock_available_days) = "NONE" =>
                   DemandOf(reply.seen.found[k]) <= 5
        /\ Len(reply.recommendations) <= Cardinality(Urgent(reply.seen.found))

\* The recommender ran over a record that sells (avg_daily_sales_qty > 0),
\* whose stock lasts 30 days or more, and returned nothing for it.
C27_SlowSellerLeftOut ==
    /\ DemandServed
    /\ \E k \in 1..Len(reply.seen.found) :
           /\ QLt(QI(0), reply.seen.found[k].avg_daily_sales_qty)
           /\ UrgencyOfDays(reply.seen.found[k].stock_available_days) = "NONE"
    /\ Len(reply.recommendations) < Len(reply.seen.found)
\* The anchor resolver has a reading for the row under the label, and the reading
ResolverReads(brand_stock_data, label) ==
    \E i \in 1..Len(brand_stock_data) : brand_stock_data[i].key = label

ResolverReading(brand_stock_data, label) ==
    brand_stock_data[CHOOSE i \in 1..Len(brand_stock_data) : brand_stock_data[i].key = label].val

\* The resolver's readings of a row against the daily_stock of its record:
\* present under the same labels, with the same readings
SameReadings(cols, row, date_columns, brand_stock_data, daily_stock) ==
    \A i \in 1..Len(date_columns) :
        /\ ResolverReads(brand_stock_data, date_columns[i])
               <=> PresentAt(cols, row, date_columns[i])
        /\ ResolverReads(brand_stock_data, date_columns[i]) =>
               ResolverReading(brand_stock_data, date_columns[i]) = daily_stock[i].val

\* C28: for every record of a tabular batch and every date column, the
\* anchor resolver (STEP 1) and the reconstruction (STEP 2) agree on whether
\* the row's cell is present, and the reading the resolver uses for a present
\* cell is the reading of the record's daily_stock, which is stored with
\* its values as whole numbers.
C28_ResolverReadsAsStored ==
    \A f \in files :
        TabularStored(f) =>
            \A cols \in {HeaderOf(f)} :
                \A keys \in {ClassifyColumns(cols)} :
                    \A rows \in {SourceRows(f, cols, keys)} :
                        /\ Len(rows) = Len(store)
                        /\ \A k \in 1..Len(store) :
                               \A daily_stock \in {DailyStockData(cols, rows[k], keys.date_columns)} :
                                   /\ store[k].daily_sales = IntValues(daily_stock)
                                   /\ SameReadings(cols, rows[k], keys.date_columns,
                                                   BrandStockData(cols, rows[k], keys.date_columns),
                                                   daily_stock)
\* C29: whenever the upload of a sheet was handled and its headers sent it
\* to the tabular path, the classifier finds a brand name column among
\* them, so that the sheet is not refused for lack of one.
C29_TabularHasBrandColumn ==
    \A f \in files :
        (UploadAnswered /\ ReadAsTable(f)) =>
            ClassifyColumns(HeaderOf(f)).brand_col # NoCol

\* A header of the form DD-Mon: two digits, a hyphen, a month abbreviation
IsDayMonth(header) ==
    /\ header.k = "str"
    /\ Len(header.s) = 6
    /\ IsDigit(header.s[1]) /\ IsDigit(header.s[2])
    /\ header.s[3] = "-"
    /\ SubSeq(header.s, 4, 6) \in MonthAbbreviations

\* The label is one of the date columns, and every stored record has an
\* entry for it in its daily_stock
IsDateReading(label, date_columns) ==
    /\ \E i \in 1..Len(date_columns) : date_columns[i] = label
    /\ \A k \in 1..Len(store) :
           \E i \in 1..Len(store[k].daily_sales) : store[k].daily_sales[i].key = label

\* C30: once the upload of a sheet read as a table was handled, every header
\* of the form DD-Mon, for each of the twelve month abbreviations, is
\* classified as a date reading column, and every record stored from the
\* sheet has an entry under it in daily_stock.
C30_DayMonthIsDateColumn ==
    \A f \in files :
        (UploadAnswered /\ ReadAsTable(f)) =>
            \A keys \in {ClassifyColumns(HeaderOf(f))} :
                \A i \in 1..Len(f.content.cols) :
                    IsDayMonth(f.content.cols[i]) =>
                        IsDateReading(f.content.cols[i].s, keys.date_columns)

====
